---- MODULE Spec2Model ----
(***************************************************************************)
(* A model of the table helpers of data_seb: the date coder of cod.py      *)
(* (get_date, get_date_ipc), the monthly index loaders (ipc.get_ipc,       *)
(* cpi.get_cpi with api=False) and the index accrual calculator            *)
(* (get_act_cap of ipc.py and cpi.py); and of the fetches of bcra.py: the  *)
(* paging get_from_api and the thread pool of get_series_api.              *)
(*                                                                         *)
(* A pandas DataFrame is a function from column names to columns; a column *)
(* is a record [dtype, v] of the pandas dtype and the sequence of values.  *)
(* The functions mutate the caller's table in place, as the code does.     *)
(***************************************************************************)
EXTENDS Integers, Sequences, FiniteSets, TLC

VARIABLES
    df,     \* the table object the caller passed (mutated in place)
    df0,    \* the table as it was before the first call
    df1,    \* the table as it was after the first call
    ret,    \* what the last call returned: a table, or NoTable
    err,    \* the exception the last call raised, "" when it returned
    calls,  \* the calls made so far, oldest first
    server,     \* what the BCRA API holds: variable id -> rows, in its order
    arguments,  \* the (idvariable, nombre) pairs given to get_series_api
    pc,         \* where the thread calling get_series_api is
    task,       \* the get_from_api calls handed to the pool, one per pair
    completed,  \* the tasks that ended, in the order they ended
    bls,        \* the paging of cpi.get_cpi(api=True)
    pbi,        \* the call of a function of pbi.py: its arguments, position and outcome
    paging      \* a long series the BCRA API holds, and the pages fetched of it

vars == <<df, df0, df1, ret, err, calls, server, arguments, pc, task, completed, bls, pbi, paging>>

\* the state of the fetches and of the calls of pbi.py
apivars == <<server, arguments, pc, task, completed, bls, pbi, paging>>

(***************************************************************************)
(* Bounds of the model.                                                    *)
(***************************************************************************)
MaxRows == 2
MaxCalls == 2
\* the observations the API holds of one variable, at most
MaxObs == 2
\* the threads of the pool (ThreadPoolExecutor() takes min(32, cpus + 4))
max_workers == 2
\* the cells of a row of the sheet of the PBI, after its label, at most
MaxCells == 11

\* The years the input dates are drawn from: a century year that is not a
\* leap year, one that is, an ordinary year and an ordinary leap year.
Years == {1900, 2000, 2023, 2024}

(***************************************************************************)
(* Calendar.                                                               *)
(***************************************************************************)
isleap(year) == year % 4 = 0 /\ (year % 100 # 0 \/ year % 400 = 0)

\* calendar.monthrange(year, month)[1]
monthrange(year, month) ==
    LET
        mdays == <<31, 28, 31, 30, 31, 30, 31, 31, 30, 31, 30, 31>>
    IN
    mdays[month] + (IF month = 2 /\ isleap(year) THEN 1 ELSE 0)

MkDate(y, m, d) == [y |-> y, m |-> m, d |-> d]

\* pandas' own days-in-month, used by the MonthEnd offset
DaysInMonth(y, m) ==
    IF m = 2 THEN (IF isleap(y) THEN 29 ELSE 28)
    ELSE IF m \in {4, 6, 9, 11} THEN 30 ELSE 31

\* MonthBegin(0) in the place of MonthEnd(0)
MonthBegin0(ts) == MkDate(ts.y, ts.m, 1)

\* ts + pd.offsets.MonthEnd(0): roll forward to the month end, staying on it
MonthEnd0(ts) ==
    IF ts.d = DaysInMonth(ts.y, ts.m) THEN ts
    ELSE MkDate(ts.y, ts.m, DaysInMonth(ts.y, ts.m))

(***************************************************************************)
(* Text: a string is modelled as the sequence of its characters, so that   *)
(* formatting and parsing are computed, digit by digit.                    *)
(***************************************************************************)
DigitChars == <<"0", "1", "2", "3", "4", "5", "6", "7", "8", "9">>

DigitChar(n) == DigitChars[n + 1]

RECURSIVE IntToStr(_)
\* str(n) for n >= 0: no padding
IntToStr(n) ==
    IF n < 10 THEN <<DigitChar(n)>>
    ELSE Append(IntToStr(n \div 10), DigitChar(n % 10))

RECURSIVE StrToInt(_)
StrToInt(s) ==
    LET
        DigitVal(c) == CHOOSE n \in 0..9 : DigitChars[n + 1] = c
    IN
    IF Len(s) = 0 THEN 0
    ELSE 10 * StrToInt(SubSeq(s, 1, Len(s) - 1)) + DigitVal(s[Len(s)])

\* %m without its padding (what %-m, or str(month), would give)
Fmt_m_unpadded(m) == IntToStr(m)

\* %m and %Y of strftime: zero-padded to 2 and to 4 digits
Fmt_m(m) == IF m < 10 THEN <<"0">> \o IntToStr(m) ELSE IntToStr(m)

Fmt_Y(y) ==
    IF y < 10 THEN <<"0", "0", "0">> \o IntToStr(y)
    ELSE IF y < 100 THEN <<"0", "0">> \o IntToStr(y)
    ELSE IF y < 1000 THEN <<"0">> \o IntToStr(y)
    ELSE IntToStr(y)

\* ts.strftime('%m-%Y')
strftime_mY(ts) == Fmt_m(ts.m) \o <<"-">> \o Fmt_Y(ts.y)

AllDigits(s) ==
    LET
        IsDigit(c) == \E n \in 0..9 : DigitChars[n + 1] = c
    IN
    \A i \in 1..Len(s) : IsDigit(s[i])

\* The failed parse of to_datetime
BadDate == MkDate(0, 0, 0)

\* pd.to_datetime(s, format='%Y%m'): four digits of year, then one or two
\* digits of month; the day defaults to 1
strptime_Ym(s) ==
    IF Len(s) \notin {5, 6} \/ ~AllDigits(s) THEN BadDate
    ELSE LET y == StrToInt(SubSeq(s, 1, 4))
             m == StrToInt(SubSeq(s, 5, Len(s)))
         IN  IF m \notin 1..12 THEN BadDate ELSE MkDate(y, m, 1)

(***************************************************************************)
(* Numbers.  A float64 value is NaN, an infinity, or a real number kept    *)
(* exactly as sign * product of p^ex[p] over the primes p of Primes, each  *)
(* exponent a fraction <<n, d>> in lowest terms.  Products, quotients and  *)
(* fractional powers are then exact, and equal values have equal           *)
(* representations.  The rounding of float64 is not modelled.              *)
(***************************************************************************)
Primes == <<2, 3, 5, 7, 11, 13>>

PrimeSet == {Primes[i] : i \in 1..Len(Primes)}

Abs(n) == IF n < 0 THEN -n ELSE n

RECURSIVE GCD(_, _)
GCD(a, b) == IF b = 0 THEN a ELSE GCD(b, a % b)

\* Fractions <<n, d>> in lowest terms, d > 0
QNorm(n, d) ==
    LET g == GCD(Abs(n), Abs(d))
        s == IF d < 0 THEN -1 ELSE 1
    IN  <<(s * n) \div g, (s * d) \div g>>

QAdd(a, b) == QNorm(a[1] * b[2] + b[1] * a[2], a[2] * b[2])

ZeroEx ==
    LET
        QZero == <<0, 1>>
    IN
    [p \in PrimeSet |-> QZero]

NaN == [k |-> "nan", sg |-> 0, ex |-> ZeroEx]

Inf(s) == [k |-> "inf", sg |-> s, ex |-> ZeroEx]

Num(s, e) == [k |-> "num", sg |-> s, ex |-> IF s = 0 THEN ZeroEx ELSE e]

Zero == Num(0, ZeroEx)

One == Num(1, ZeroEx)

IsNaN(a) == a.k = "nan"

\* pandas' notna() of a float
IsNum(a) == a.k = "num"

RECURSIVE ExpOf(_, _)
\* the multiplicity of the prime p in n > 0
ExpOf(p, n) == IF n % p # 0 THEN 0 ELSE 1 + ExpOf(p, n \div p)

RECURSIVE IPow(_, _)
IPow(b, k) == IF k = 0 THEN 1 ELSE b * IPow(b, k - 1)

RECURSIVE Smooth(_, _)
\* n > 0 with the primes Primes[i..] divided out
Smooth(n, i) ==
    IF i > Len(Primes) THEN n
    ELSE Smooth(n \div IPow(Primes[i], ExpOf(Primes[i], n)), i + 1)

FromInt(n) ==
    LET
        Sign(n1) == IF n1 < 0 THEN -1 ELSE IF n1 = 0 THEN 0 ELSE 1
    IN
    IF n = 0 THEN Zero
    ELSE Num(Sign(n), [p \in PrimeSet |-> <<ExpOf(p, Abs(n)), 1>>])

RMul(a, b) ==
    IF IsNaN(a) \/ IsNaN(b) THEN NaN
    ELSE IF a.k = "inf" \/ b.k = "inf"
         THEN (IF a.sg * b.sg = 0 THEN NaN ELSE Inf(a.sg * b.sg))
    ELSE Num(a.sg * b.sg, [p \in PrimeSet |-> QAdd(a.ex[p], b.ex[p])])

\* a / b: x / 0 is an infinity, 0 / 0 and inf / inf are NaN
RDiv(a, b) ==
    LET
        \* 1 / b
        RInv(b1) ==
            LET
                QNeg(a1) == <<-a1[1], a1[2]>>
            IN
            IF IsNaN(b1) THEN NaN
            ELSE IF b1.k = "inf" THEN Zero
            ELSE IF b1.sg = 0 THEN Inf(1)
            ELSE Num(b1.sg, [p \in PrimeSet |-> QNeg(b1.ex[p])])
    IN
    RMul(a, RInv(b))

FromFrac(q) == RDiv(FromInt(q[1]), FromInt(q[2]))

RECURSIVE FracProd(_, _, _)
\* the product of p^(s * ex[p]) over the primes Primes[i..] with s * ex[p] > 0
FracProd(a, s, i) ==
    IF i > Len(Primes) THEN 1
    ELSE LET e == s * a.ex[Primes[i]][1]
         IN  (IF e > 0 THEN IPow(Primes[i], e) ELSE 1) * FracProd(a, s, i + 1)

\* the fraction <<n, d>> of a rational number
ToFrac(a) == <<a.sg * FracProd(a, 1, 1), FracProd(a, -1, 1)>>

\* a + b of two rational numbers
RAdd(a, b) ==
    IF IsNaN(a) \/ IsNaN(b) THEN NaN
    ELSE IF a.k = "inf" \/ b.k = "inf"
         THEN (IF a.k = "inf" /\ b.k = "inf" /\ a.sg # b.sg THEN NaN
               ELSE IF a.k = "inf" THEN a ELSE b)
    ELSE FromFrac(QAdd(ToFrac(a), ToFrac(b)))

RNeg(a) == IF IsNum(a) \/ a.k = "inf" THEN [a EXCEPT !.sg = -a.sg] ELSE a

\* a ** q for a fraction q >= 0, as IEEE pow: 1 ** y and x ** 0 are 1 (even
\* for a NaN x), a negative base with a fractional exponent is NaN
RPow(a, q) ==
    LET
        QMul(a1, b) == QNorm(a1[1] * b[1], a1[2] * b[2])
    IN
    IF a = One \/ q[1] = 0 THEN One
    ELSE IF IsNaN(a) THEN NaN
    ELSE IF a.k = "inf" THEN Inf(1)
    ELSE IF a.sg = 0 THEN Zero
    ELSE IF a.sg < 0 /\ q[2] # 1 THEN NaN
    ELSE Num(IF q[1] % 2 = 0 THEN 1 ELSE a.sg,
             [p \in PrimeSet |-> QMul(a.ex[p], q)])

(***************************************************************************)
(* Tables.                                                                 *)
(***************************************************************************)
Col(dtype, v) == [dtype |-> dtype, v |-> v]

\* the table with no column, and the value of a call that returned nothing
NoTable == [c \in {} |-> Col("object", <<>>)]

\* df[name] = col
SetCol(t, name, col) ==
    [c \in DOMAIN t \cup {name} |-> IF c = name THEN col ELSE t[c]]

\* df[names]
Select(t, names) == [c \in names |-> t[c]]

\* two columns hold the same values with the same dtype
ColEq(a, b) == a.dtype = b.dtype /\ a.v = b.v

NRows(t) == IF DOMAIN t = {} THEN 0 ELSE Len(t[CHOOSE c \in DOMAIN t : TRUE].v)

\* the outcome of a call: the table as the call left it, and the exception
Ok(t) == [t |-> t, err |-> ""]

Raise(t, e) == [t |-> t, err |-> e]

\* pd.api.types.is_datetime64_dtype(col); the .dt accessor exists on the
\* same columns in this model (no timezone-aware or period column arises)
is_datetime64_dtype(col) == col.dtype = "datetime64[ns]"

MapCol(col, dtype, F(_)) == Col(dtype, [i \in 1..Len(col.v) |-> F(col.v[i])])

dt_day(ts) == ts.d

dt_month(ts) == ts.m

dt_year(ts) == ts.y

(***************************************************************************)
(* cod.get_date, statement by statement.  An exception leaves the table as *)
(* the statements before it made it.                                       *)
(***************************************************************************)
\* df['day'] = df[date].dt.day, whatever the day flag
get_date_day_unconditional(t, date, day) ==
    IF date \notin DOMAIN t THEN Raise(t, "KeyError")
    ELSE IF ~is_datetime64_dtype(t[date]) THEN Raise(t, "AttributeError")
    ELSE Ok(SetCol(t, "day", MapCol(t[date], "int32", dt_day)))

\* if day: df['day'] = df[date].dt.day
get_date_day(t, date, day) ==
    IF ~day THEN Ok(t)
    ELSE IF date \notin DOMAIN t THEN Raise(t, "KeyError")
    ELSE IF ~is_datetime64_dtype(t[date]) THEN Raise(t, "AttributeError")
    ELSE Ok(SetCol(t, "day", MapCol(t[date], "int32", dt_day)))

\* the if / else that sets Date_Cod
get_date_cod(t, date) ==
    LET
        \* pd.to_datetime(s, format='%m-%Y'): one or two digits of month, a hyphen,
        \* four digits of year; the day defaults to 1
        strptime_mY(s) ==
            LET h == IF Len(s) >= 2 /\ s[2] = "-" THEN 2
                     ELSE IF Len(s) >= 3 /\ s[3] = "-" THEN 3 ELSE 0
            IN  IF h = 0 \/ Len(s) # h + 4 THEN BadDate
                ELSE LET ms == SubSeq(s, 1, h - 1)
                         ys == SubSeq(s, h + 1, Len(s))
                     IN  IF ~(AllDigits(ms) /\ AllDigits(ys)) THEN BadDate
                         ELSE IF StrToInt(ms) \notin 1..12 THEN BadDate
                         ELSE MkDate(StrToInt(ys), StrToInt(ms), 1)
        \* month.astype(str) + '-' + year.astype(str)
        MonthYearText(t1) ==
            Col("object", [i \in 1..NRows(t1) |->
                IntToStr(t1["month"].v[i]) \o <<"-">> \o IntToStr(t1["year"].v[i])])
    IN
    IF date \notin DOMAIN t THEN Raise(t, "KeyError")
    ELSE IF is_datetime64_dtype(t[date])
    THEN Ok(SetCol(t, "Date_Cod", MapCol(t[date], "object", strftime_mY)))
    ELSE IF ~({"month", "year"} \subseteq DOMAIN t) THEN Raise(t, "KeyError")
    ELSE LET t1 == SetCol(t, "Date", MonthYearText(t))
             parsed == MapCol(t1["Date"], "datetime64[ns]", strptime_mY)
         IN  IF \E i \in 1..Len(parsed.v) : parsed.v[i] = BadDate
             THEN Raise(t1, "ValueError")
             ELSE Ok(SetCol(t1, "Date_Cod", MapCol(parsed, "object", strftime_mY)))

\* df['month'] = df[date].dt.month
get_date_month(t, date) ==
    IF ~is_datetime64_dtype(t[date]) THEN Raise(t, "AttributeError")
    ELSE Ok(SetCol(t, "month", MapCol(t[date], "int32", dt_month)))

\* the year assigned to the date column: df[date] = df[date].dt.year
get_date_year_into_date(t, date) ==
    IF ~is_datetime64_dtype(t[date]) THEN Raise(t, "AttributeError")
    ELSE Ok(SetCol(t, date, MapCol(t[date], "int32", dt_year)))

\* df['year'] = df[date].dt.year
get_date_year(t, date) ==
    IF ~is_datetime64_dtype(t[date]) THEN Raise(t, "AttributeError")
    ELSE Ok(SetCol(t, "year", MapCol(t[date], "int32", dt_year)))

get_date(t, date, day) ==
    LET s1 == get_date_day(t, date, day)
        s2 == IF s1.err # "" THEN s1 ELSE get_date_cod(s1.t, date)
        s3 == IF s2.err # "" THEN s2 ELSE get_date_month(s2.t, date)
        s4 == IF s3.err # "" THEN s3 ELSE get_date_year(s3.t, date)
    IN  s4

(***************************************************************************)
(* cod.get_date_ipc.  The year column is named with the Spanish word for   *)
(* year in the code; it is written Anio here.                              *)
(***************************************************************************)

get_date_ipc(t) ==
    LET
        \* one value of pd.to_datetime(df['Periodo'], format='%Y%m')
        to_datetime_Ym(dtype, x) ==
            IF dtype = "datetime64[ns]" THEN x
            ELSE IF dtype = "int64" THEN strptime_Ym(IntToStr(x))
            ELSE strptime_Ym(x)
    IN
    IF "Periodo" \notin DOMAIN t THEN Raise(t, "KeyError")
    ELSE LET src == t["Periodo"]
             per == Col("datetime64[ns]",
                        [i \in 1..Len(src.v) |-> to_datetime_Ym(src.dtype, src.v[i])])
         IN  IF \E i \in 1..Len(per.v) : per.v[i] = BadDate
             THEN Raise(t, "ValueError")
             ELSE LET t1 == SetCol(t, "Periodo", per)
                      t2 == SetCol(t1, "month", MapCol(per, "int32", dt_month))
                      t3 == SetCol(t2, "Anio", MapCol(per, "int32", dt_year))
                  IN  Ok(SetCol(t3, "Date", MapCol(per, "datetime64[ns]", MonthEnd0)))

(***************************************************************************)
(* The monthly index loaders: ipc.get_ipc and cpi.get_cpi with api=False.  *)
(* The workbook read by pd.read_excel is the table `file`, whose Date      *)
(* column holds dates.                                                     *)
(***************************************************************************)
\* Series.pct_change(): missing in the first row, x[i] / x[i-1] - 1 after it
pct_change(col) ==
    Col("float64", [i \in 1..Len(col.v) |->
        IF i = 1 THEN NaN
        ELSE RAdd(RDiv(col.v[i], col.v[i - 1]), RNeg(One))])

get_ipc(file) ==
    LET
        \* df.apply(lambda row: calendar.monthrange(row['year'], row['month'])[1], axis=1)
        CantD_col(t) ==
            Col("int64", [i \in 1..NRows(t) |->
                monthrange(t["year"].v[i], t["month"].v[i])])
        \* ipc[cod.COLS[:-1] + ['IPC', 'InflaMensual', 'CantD']], s the outcome of get_date
        loaded(s) ==
            IF s.err # "" THEN Raise(NoTable, s.err)
            ELSE IF ~({"year", "month"} \subseteq DOMAIN s.t)
            THEN Raise(NoTable, "KeyError")
            ELSE Ok(Select(SetCol(s.t, "CantD", CantD_col(s.t)),
                           {"Date", "Date_Cod", "IPC", "InflaMensual", "CantD"}))
    IN
    IF ~({"Date", "IPC"} \subseteq DOMAIN file) THEN Raise(NoTable, "KeyError")
    ELSE loaded(get_date(SetCol(file, "InflaMensual", pct_change(file["IPC"])),
                         "Date", FALSE))

\* cpi.py imports print_calendar and binds the name calendar nowhere: the
\* lambda that computes CantD raises NameError on the first row it is given
get_cpi_file(file) ==
    IF ~({"Date", "CPI"} \subseteq DOMAIN file) THEN Raise(NoTable, "KeyError")
    ELSE LET cpi == SetCol(Select(file, {"Date", "CPI"}), "InflaMensual",
                           pct_change(file["CPI"]))
             s == get_date(cpi, "Date", FALSE)
         IN  IF s.err # "" THEN Raise(NoTable, s.err)
             ELSE Raise(NoTable, "NameError")

(***************************************************************************)
(* get_act_cap of ipc.py and of cpi.py, statement by statement.  The two   *)
(* differ in the names of the columns only.                                *)
(***************************************************************************)
\* 1 + df[infl]
OnePlus(col) == Col("float64", [i \in 1..Len(col.v) |-> RAdd(One, col.v[i])])

\* df[idx] = df[idx] / (1 + df[infl])
act_cap_rebase(t, idx, infl) ==
    IF ~({idx, infl} \subseteq DOMAIN t) THEN Raise(t, "KeyError")
    ELSE Ok(SetCol(t, idx, Col("float64", [i \in 1..NRows(t) |->
                RDiv(t[idx].v[i], OnePlus(t[infl]).v[i])])))

\* the column left as it is, not divided by its first or last value
act_cap_unnormalised(t, c, last) ==
    IF NRows(t) = 0 THEN Raise(t, "IndexError") ELSE Ok(t)

\* df[c] = df[c] / df[c].iloc[k], k the first (1) or the last (-1) row
act_cap_normalise(t, c, last) ==
    IF NRows(t) = 0 THEN Raise(t, "IndexError")
    ELSE LET k == IF last THEN NRows(t) ELSE 1
         IN  Ok(SetCol(t, c, Col("float64", [i \in 1..NRows(t) |->
                    RDiv(t[c].v[i], t[c].v[k])])))

\* the update factor with a whole month's inflation on every day
act_cap_update_whole_month(t, idx, infl, act) ==
    IF ~({"day", "CantD"} \subseteq DOMAIN t) THEN Raise(t, "KeyError")
    ELSE Ok(SetCol(t, act, Col("float64", [i \in 1..NRows(t) |->
                RMul(t[idx].v[i], OnePlus(t[infl]).v[i])])))

\* the update factor with the days left in the month as the exponent
act_cap_update_days_left(t, idx, infl, act) ==
    IF ~({"day", "CantD"} \subseteq DOMAIN t) THEN Raise(t, "KeyError")
    ELSE Ok(SetCol(t, act, Col("float64", [i \in 1..NRows(t) |->
                RMul(t[idx].v[i],
                     RPow(OnePlus(t[infl]).v[i],
                          QNorm(t["CantD"].v[i] - t["day"].v[i], t["CantD"].v[i])))])))

\* df[act] = df[idx] * (1 + df[infl]) ** (df['day'] / df['CantD'])
act_cap_update(t, idx, infl, act) ==
    IF ~({"day", "CantD"} \subseteq DOMAIN t) THEN Raise(t, "KeyError")
    ELSE Ok(SetCol(t, act, Col("float64", [i \in 1..NRows(t) |->
                RMul(t[idx].v[i],
                     RPow(OnePlus(t[infl]).v[i],
                          QNorm(t["day"].v[i], t["CantD"].v[i])))])))

\* df[cap] = 1 / df[act]
act_cap_reciprocal(t, act, cap) ==
    Ok(SetCol(t, cap, Col("float64", [i \in 1..NRows(t) |-> RDiv(One, t[act].v[i])])))

act_cap(t, idx, infl, act, cap) ==
    LET \* each statement runs on the table the one before it left, unless that one raised
        line5(s4) == IF s4.err # "" THEN s4 ELSE act_cap_normalise(s4.t, cap, TRUE)
        line4(s3) == line5(IF s3.err # "" THEN s3 ELSE act_cap_reciprocal(s3.t, act, cap))
        line3(s2) == line4(IF s2.err # "" THEN s2 ELSE act_cap_update(s2.t, idx, infl, act))
        line2(s1) == line3(IF s1.err # "" THEN s1 ELSE act_cap_normalise(s1.t, idx, FALSE))
    IN  line2(act_cap_rebase(t, idx, infl))

\* ipc.get_act_cap(df)
ipc_get_act_cap(t) == act_cap(t, "IPC", "InflaMensual", "Actualizador", "Capitalizador")

\* cpi.get_act_cap(df, us)
cpi_get_act_cap(t, us) ==
    act_cap(t, "CPI",
            IF us THEN "InflaMensual_US" ELSE "InflaMensual",
            IF us THEN "ActualizadorUS" ELSE "Actualizador",
            IF us THEN "CapitalizadorUS" ELSE "Capitalizador")

(***************************************************************************)
(* The input tables.                                                       *)
(***************************************************************************)
\* the names a caller gives the date column
DateCols == {"Date", "Fecha"}

\* the index of two consecutive months
IdxPairs == {<<100, 104>>, <<104, 100>>, <<100, 100>>, <<104, 110>>,
             <<110, 110>>, <<110, 121>>}

RECURSIVE DateRun(_, _, _)
\* n consecutive days ("D") or month ends ("M") from start on
DateRun(start, n, step) ==
    LET
        \* ts + 1 day, and the month end following a month end
        NextDay(ts) ==
            IF ts.d < DaysInMonth(ts.y, ts.m) THEN MkDate(ts.y, ts.m, ts.d + 1)
            ELSE IF ts.m < 12 THEN MkDate(ts.y, ts.m + 1, 1)
            ELSE MkDate(ts.y + 1, 1, 1)
        NextMonthEnd(ts) ==
            IF ts.m < 12 THEN MkDate(ts.y, ts.m + 1, DaysInMonth(ts.y, ts.m + 1))
            ELSE MkDate(ts.y + 1, 1, 31)
    IN
    IF n = 0 THEN <<>>
    ELSE <<start>> \o DateRun(IF step = "D" THEN NextDay(start)
                              ELSE NextMonthEnd(start), n - 1, step)

\* the runs of consecutive days of the input tables
DateRuns ==
    LET
        \* the first, a middle and the last day of a month
        StartDays(y, m) == {1, 15, DaysInMonth(y, m)}
    IN
    UNION {{DateRun(MkDate(y, m, d), n, "D") : d \in StartDays(y, m), n \in 0..MaxRows} :
            <<y, m>> \in Years \X (1..12)}

MonthEndRuns ==
    {DateRun(MkDate(y, m, DaysInMonth(y, m)), n, "M") :
        <<y, m, n>> \in Years \X (1..12) \X (1..MaxRows)}

PeriodCode(ts) == ts.y * 100 + ts.m

\* a table with a date-typed date column
DatedTable(dcol, run) == SetCol(NoTable, dcol, Col("datetime64[ns]", run))

\* the alternate shape: the date column is text, month and year are columns
SplitTable(dcol, run) ==
    LET
        YearText(ts) == IntToStr(ts.y)
    IN
    LET c == Col("datetime64[ns]", run)
    IN  SetCol(SetCol(SetCol(NoTable, dcol, MapCol(c, "object", YearText)),
                      "month", MapCol(c, "int64", dt_month)),
               "year", MapCol(c, "int64", dt_year))

\* a table with a Periodo column of YYYYMM codes, integers or text
PeriodTable(run, asInt) ==
    LET
        PeriodText(ts) == IntToStr(PeriodCode(ts))
    IN
    LET c == Col("datetime64[ns]", run)
    IN  SetCol(NoTable, "Periodo",
               IF asInt THEN MapCol(c, "int64", PeriodCode)
               ELSE MapCol(c, "object", PeriodText))

\* the workbook of a monthly index: month-end dates and index values
FileTable(idx, run, vals) ==
    SetCol(DatedTable("Date", run), idx,
           Col("float64", [i \in 1..Len(run) |-> FromInt(vals[i])]))

AccTable(idx, infl, y, m, prev, i0, i1, rows) ==
    LET
        \* The table get_act_cap is given: daily rows carrying the index of their
        \* month, the monthly inflation pct_change computed from it (missing in the
        \* rows of the first month of the series, prev = 0), the day and the
        \* days of the month.  rows[i] = <<month offset, day>>; the rows come in any
        \* order.
        AccRow(y1, m1, prev1, i01, i11, r) ==
            LET ym == IF r[1] = 0 THEN <<y1, m1>>
                      ELSE IF m1 < 12 THEN <<y1, m1 + 1>> ELSE <<y1 + 1, 1>>
                cantd == DaysInMonth(ym[1], ym[2])
                d == IF r[2] > cantd THEN cantd ELSE r[2]
                cur == IF r[1] = 0 THEN i01 ELSE i11
                bef == IF r[1] = 0 THEN prev1 ELSE i01
            IN  [date |-> MkDate(ym[1], ym[2], d),
                 idx |-> FromInt(cur),
                 infl |-> IF bef = 0 THEN NaN
                          ELSE RAdd(RDiv(FromInt(cur), FromInt(bef)), RNeg(One)),
                 day |-> d, cantd |-> cantd]
    IN
    LET R(i) == AccRow(y, m, prev, i0, i1, rows[i])
        n == Len(rows)
    IN  [c \in {"Date", idx, infl, "day", "CantD"} |->
            IF c = "Date" THEN Col("datetime64[ns]", [i \in 1..n |-> R(i).date])
            ELSE IF c = idx THEN Col("float64", [i \in 1..n |-> R(i).idx])
            ELSE IF c = infl THEN Col("float64", [i \in 1..n |-> R(i).infl])
            ELSE IF c = "day" THEN Col("int32", [i \in 1..n |-> R(i).day])
            ELSE Col("int64", [i \in 1..n |-> R(i).cantd])]

(***************************************************************************)
(* The data-source helpers called with the date-code flag true, from the   *)
(* table their fetch returned on.  A fetched table carries its date index  *)
(* under the name "(index)"; get_from_api and get_series_api return it     *)
(* sorted by date.  The helpers are those of bcra.py in API mode (the ones *)
(* without an API mode from their file) and dolar.get_blue.                *)
(***************************************************************************)
IndexCol == "(index)"

\* the rows idxs of the table, in that order
TakeRows(t, idxs) ==
    [c \in DOMAIN t |-> Col(t[c].dtype, [i \in 1..Len(idxs) |-> t[c].v[idxs[i]]])]

\* df.dropna(): the rows without a missing value
dropna(t) ==
    TakeRows(t, SelectSeq([i \in 1..NRows(t) |-> i],
                LAMBDA i : \A c \in DOMAIN t : t[c].dtype = "float64" => ~IsNaN(t[c].v[i])))

RECURSIVE InsertByIndex(_, _, _)
InsertByIndex(t, sorted, i) ==
    LET no(j) == t[IndexCol].v[j].y * 10000 + t[IndexCol].v[j].m * 100 + t[IndexCol].v[j].d
    IN  IF sorted = <<>> THEN <<i>>
        ELSE IF no(sorted[Len(sorted)]) <= no(i) THEN Append(sorted, i)
        ELSE Append(InsertByIndex(t, SubSeq(sorted, 1, Len(sorted) - 1), i),
                    sorted[Len(sorted)])

RECURSIVE IndexOrder(_, _)
IndexOrder(t, n) ==
    IF n = 0 THEN <<>> ELSE InsertByIndex(t, IndexOrder(t, n - 1), n)

\* df.sort_index()
sort_index(t) == TakeRows(t, IndexOrder(t, NRows(t)))

\* df[name] = df.index
index_as_column(t, name) == SetCol(t, name, t[IndexCol])

\* df[cols], the index kept; a name that is no column is a KeyError
select_columns(s, cols) ==
    IF s.err # "" THEN s
    ELSE IF ~(cols \subseteq DOMAIN s.t) THEN Raise(s.t, "KeyError")
    ELSE Ok(Select(s.t, cols \cup {IndexCol}))

\* cod.COLS
COLS == {"Date", "Date_Cod", "day"}

\* the columns of the table the fetch of each helper returns
FetchedCols ==
    [get_fixed_term_deposits |-> {"PF", "PF_UVA", "PF_Privado", "PF_UVA_Privado"},
     get_monetary_base |-> {"BMT", "CM", "DPP", "DPB", "CCBCRA"},
     get_m2 |-> {"M2"},
     get_lefis |-> {"LEFI", "LEFI_Flujo"},
     get_monetary_instruments |->
        {"Pases_Pasivos", "Pases_Activos", "Pases_Pasivos_FCI", "LEBACs", "LELIQs",
         "LEBACsD_LEVID_BOPREAL", "NOCOMs"},
     get_government_deposits |-> {"Fecha", "Depositos_gob"},
     get_official_exchange_rate |-> {"A3500_ER"},
     get_international_reserves |-> {"RRII"},
     get_loans |-> {"Prestamos"},
     get_rates |-> {"TNA_genP", "TNA_100KP", "TNA_1MP"},
     get_itcrm |-> {"Fecha", "ITCRM"},
     get_blue |-> {"Seller", "Buyer"}]

Helpers == DOMAIN FetchedCols

\* calculate_rates(df, columns), names the columns of df in their order:
\* df.columns = columns fails when the lengths differ, as they do for the
\* three columns of the API table; each rate but the last name, 'Fecha',
\* becomes a fraction and gets its TEM and TEA; the index becomes Fecha
calculate_rates(t, names, columns) ==
    LET n == NRows(t)
        tasas == {columns[k] : k \in 1..(Len(columns) - 1)}
        src(c) == names[CHOOSE k \in 1..Len(columns) : columns[k] = c]
        tem_col == [TNA_GenP |-> "TEM_GenP", TNA_100KP |-> "TEM_100KP", TNA_1MP |-> "TEM_1MP",
                    TNA_GenD |-> "TEM_GenD", TNA_100KD |-> "TEM_100KD", TNA_1MD |-> "TEM_1MD"]
        tea_col == [TNA_GenP |-> "TEA_GenP", TNA_100KP |-> "TEA_100KP", TNA_1MP |-> "TEA_1MP",
                    TNA_GenD |-> "TEA_GenD", TNA_100KD |-> "TEA_100KD", TNA_1MD |-> "TEA_1MD"]
        tna(c, i) == RDiv(t[src(c)].v[i], FromInt(100))
        tem(c, i) == RDiv(tna(c, i), FromInt(12))
        tea(c, i) == RAdd(RPow(RAdd(One, tem(c, i)), <<12, 1>>), RNeg(One))
        of(x) == CHOOSE c \in tasas : x \in {c, tem_col[c], tea_col[c]}
    IN  IF Len(names) # Len(columns) THEN Raise(t, "ValueError")
        ELSE Ok([x \in {IndexCol, "Fecha"} \cup tasas
                        \cup {tem_col[c] : c \in tasas} \cup {tea_col[c] : c \in tasas} |->
                    IF x \in {IndexCol, "Fecha"} THEN t[src("Fecha")]
                    ELSE Col("float64", [i \in 1..n |->
                            IF x \in tasas THEN tna(x, i)
                            ELSE IF x = tem_col[of(x)] THEN tem(of(x), i)
                            ELSE tea(of(x), i)])])

\* the columns of the table get_rates starts from: the series of its API
\* calls, or the columns of the sheet TASAS DE MERCADO under their numbers
rates_fetch(api, type) ==
    IF ~api THEN {"1", "2", "3", "5", "6", "7", "8"}
    ELSE (IF type \in {0, 1} THEN {"TNA_genP", "TNA_100KP", "TNA_1MP"} ELSE {})
         \cup (IF type \in {1, 2} THEN {"TNA_genD", "TNA_100KD", "TNA_1MD"} ELSE {})

\* get_rates(date_cod, api, type), t the table fetched
get_rates(t, date_cod, api, type) ==
    LET columns_pesos == <<"TNA_GenP", "TNA_100KP", "TNA_1MP", "Fecha">>
        columns_dolares == <<"TNA_GenD", "TNA_100KD", "TNA_1MD", "Fecha">>
        names_pesos == IF api THEN <<"TNA_genP", "TNA_100KP", "TNA_1MP">>
                       ELSE <<"2", "3", "5", "1">>
        names_dolares == IF api THEN <<"TNA_genD", "TNA_100KD", "TNA_1MD">>
                         ELSE <<"6", "7", "8", "1">>
        part(names) == Select(t, {names[k] : k \in 1..Len(names)} \cup {IndexCol})
        \* fillna(0), of the whole API table or of column '8' of the file
        fillna0(t1) ==
            [c \in DOMAIN t1 |->
                IF t1[c].dtype = "float64" /\ (api \/ c = "8")
                THEN Col("float64", [i \in 1..NRows(t1) |->
                        IF IsNaN(t1[c].v[i]) THEN Zero ELSE t1[c].v[i]])
                ELSE t1[c]]
        \* df = df.drop(columns='Fecha'); df['Fecha'] = df.index
        refecha(t1) == index_as_column(Select(t1, DOMAIN t1 \ {"Fecha"}), "Fecha")
        returned(s) == IF s.err # "" THEN Raise(NoTable, s.err) ELSE s
        coded(rated) ==
            IF rated.err # "" THEN Raise(NoTable, rated.err)
            ELSE IF date_cod THEN returned(get_date(refecha(rated.t), "Date", TRUE))
            ELSE Ok(refecha(rated.t))
        rates(p, d) ==
            coded(IF type = 0 THEN p
                  ELSE IF type = 2 THEN d
                  ELSE IF type # 1 THEN Raise(NoTable, "ValueError")
                  ELSE IF p.err # "" THEN p
                  ELSE IF d.err # "" THEN d
                  ELSE Ok([c \in (DOMAIN p.t \ {"Fecha"}) \cup DOMAIN d.t |->
                              IF c \in DOMAIN d.t THEN d.t[c] ELSE p.t[c]]))
    IN  rates(calculate_rates(part(names_pesos), names_pesos, columns_pesos),
              calculate_rates(fillna0(part(names_dolares)), names_dolares, columns_dolares))

\* the columns of the table get_monetary_base starts from: the series of
\* the API call, or the daily rows of the sheet BASE MONETARIA under the
\* names of line 237, indexed by Fecha
monetary_base_fetch(api, q, only_bmt) ==
    IF ~api THEN {"Fecha", "DPP", "DPB", "CC", "CCBCRA", "BMT", "QM", "BMTQ"}
    ELSE IF only_bmt THEN {"BMT"}
    ELSE IF q THEN {"BMT", "CM", "DPP", "DPB", "CCBCRA", "CC", "QM", "BMTQ"}
    ELSE {"BMT", "CM", "DPP", "DPB", "CCBCRA"}

\* get_monetary_base(date_cod, api, q, only_bmt), t the table fetched
get_monetary_base(t, date_cod, api, q, only_bmt) ==
    LET sum(t1, names) ==
            Col("float64", [i \in 1..NRows(t1) |->
                IF Len(names) = 2 THEN RAdd(t1[names[1]].v[i], t1[names[2]].v[i])
                ELSE RAdd(RAdd(t1[names[1]].v[i], t1[names[2]].v[i]), t1[names[3]].v[i])])
        columns == IF api /\ only_bmt THEN {"BMT"}
                   ELSE IF api /\ ~q THEN {"BMT", "CM", "DPP", "DPB", "CCBCRA", "DT"}
                   ELSE {"BMT", "CM", "DPP", "DPB", "CCBCRA", "CC", "QM", "BMTQ", "DT"}
        coded(s) == IF s.err # "" THEN Raise(NoTable, s.err) ELSE Ok(sort_index(dropna(s.t)))
        returned(t3) ==
            IF ~date_cod THEN Ok(dropna(t3))
            ELSE coded(select_columns(get_date(index_as_column(t3, "Date"), "Date", TRUE),
                                      COLS \cup columns))
        \* df['DT'] = df['DPP'] + df['DPB']
        totals(t2) ==
            returned(IF only_bmt THEN t2 ELSE SetCol(t2, "DT", sum(t2, <<"DPP", "DPB">>)))
    \* df['CM'] = df['DPP'] + df['DPB'] + df['CC'] of the file branch
    IN  totals(IF api THEN t ELSE SetCol(t, "CM", sum(t, <<"DPP", "DPB", "CC">>)))

\* the helper h called with its date-code flag true, t the table its fetch
\* returned
data_source(h, t) ==
    LET
        \* what is left of a table a helper returns: the outcome, without the table
        \* when the helper raised
        Returned(s) == IF s.err # "" THEN Raise(NoTable, s.err) ELSE s
    IN
    Returned(
    IF h = "get_monetary_base"
    THEN get_monetary_base(t, TRUE, TRUE, FALSE, FALSE)
    ELSE IF h = "get_m2"
    THEN get_date(index_as_column(t, "Date"), "Date", TRUE)
    ELSE IF h = "get_fixed_term_deposits"
    THEN get_date(index_as_column(t, "Fecha"), "Date", TRUE)
    ELSE IF h = "get_lefis"
    THEN LET s == select_columns(get_date(t, "Date", TRUE), COLS \cup {"LEFI", "LEFI_Flujo"})
         IN  IF s.err # "" THEN s ELSE Ok(dropna(s.t))
    ELSE IF h = "get_monetary_instruments"
    THEN select_columns(get_date(t, "Date", TRUE), COLS \cup FetchedCols[h])
    ELSE IF h = "get_government_deposits"
    THEN LET s == get_date(t, "Date", TRUE)
         IN  IF s.err # "" THEN s ELSE Ok(dropna(s.t))
    ELSE IF h = "get_official_exchange_rate"
    THEN select_columns(get_date(index_as_column(t, "Fecha"), "Date", TRUE),
                        COLS \cup {"A3500_ER"})
    ELSE IF h = "get_international_reserves"
    THEN select_columns(get_date(index_as_column(t, "Fecha"), "Date", TRUE),
                        COLS \cup {"RRII"})
    ELSE IF h = "get_rates"
    THEN get_rates(t, TRUE, TRUE, 0)
    ELSE IF h = "get_blue"
    THEN select_columns(get_date(index_as_column(t, "Fecha"), "Date", TRUE),
                        COLS \cup {"Seller"})
    ELSE get_date(t, "Date", TRUE))

\* the table of the columns cols a fetch returns for the days run
FetchedTable(cols, run) ==
    [c \in cols \cup {IndexCol} |->
        IF c \in {IndexCol, "Fecha", "1"} THEN Col("datetime64[ns]", run)
        ELSE IF c \in {"8", "TNA_1MD"} THEN Col("float64", [i \in 1..Len(run) |-> NaN])
        ELSE Col("float64", [i \in 1..Len(run) |-> FromInt(1200)])]

(***************************************************************************)
(* The state machine: a caller builds a table and calls the functions.     *)
(***************************************************************************)
Call(op, date, day) == [op |-> op, date |-> date, day |-> day]

InitDated == \E dcol \in DateCols, run \in DateRuns : df = DatedTable(dcol, run)

InitSplit == \E dcol \in DateCols, run \in DateRuns : df = SplitTable(dcol, run)

InitPeriod == \E run \in MonthEndRuns, asInt \in BOOLEAN : df = PeriodTable(run, asInt)

InitFile ==
    LET
        \* the index values of the input tables: a rising, a falling and a flat
        \* series, each repeated from its start when the table is longer
        IdxSeries == {<<100, 104, 110>>, <<110, 104, 100>>, <<100, 100, 100>>}
        IdxAt(series, i) == series[((i - 1) % Len(series)) + 1]
    IN
    \E idx \in {"IPC", "CPI"}, run \in MonthEndRuns :
        \E series \in IdxSeries :
            df = FileTable(idx, run, [i \in 1..Len(run) |-> IdxAt(series, i)])

InitAcc ==
    LET
        \* the months the accrual tables start in: around a leap February and
        \* across a year end
        AccStarts == {<<2024, 1>>, <<2023, 12>>}
        AccRowSeqs ==
            LET
                \* a day inside the month and its last day (31 is cut to the month's length)
                AccDays == {15, 31}
            IN
            UNION {[1..n -> {0, 1} \X AccDays] : n \in 0..MaxRows}
        AccNames == {<<"IPC", "InflaMensual">>, <<"CPI", "InflaMensual">>,
                     <<"CPI", "InflaMensual_US">>}
    IN
    \/ \E nm \in AccNames, ym \in AccStarts, prev \in {0, 100},
          ix \in IdxPairs, rows \in AccRowSeqs :
            df = AccTable(nm[1], nm[2], ym[1], ym[2], prev, ix[1], ix[2], rows)
    \* a table that lacks the day or the days of the month, as the table
    \* get_ipc returns lacks the day
    \/ \E nm \in AccNames, ix \in IdxPairs, rows \in AccRowSeqs,
          missing \in {"day", "CantD"} :
            df = Select(AccTable(nm[1], nm[2], 2024, 1, 100, ix[1], ix[2], rows),
                        {"Date", nm[1], nm[2], "day", "CantD"} \ {missing})

\* the table the fetch of a data-source helper returned
InitFetched ==
    LET
        \* the runs of days of the fetched tables: at least one day, around the
        \* leap day and the end of 2024
        FetchedRuns == {run \in DateRuns : Len(run) >= 1 /\ run[1].y = 2024 /\ run[1].m \in {2, 12}}
    IN
    \E run \in FetchedRuns :
        \/ \E h \in Helpers : df = FetchedTable(FetchedCols[h], run)
        \/ \E api, q, only_bmt \in BOOLEAN :
                df = FetchedTable(monetary_base_fetch(api, q, only_bmt), run)
        \/ \E api \in BOOLEAN, type \in {0, 1, 2} :
                df = FetchedTable(rates_fetch(api, type), run)

\* the columns of serie_ipc_divisiones.csv that get_div_ipc reads
IndecCols == {"Codigo", "Descripcion", "Clasificador", "Periodo", "Indice_IPC", "Region"}

\* get_div_ipc(tipo), t the table get_file_indec returned
get_div_ipc(t, tipo) ==
    LET columnas == {"Codigo", "Descripcion", "Periodo", "Indice_IPC"}
        clasificador == IF tipo = 1 THEN "Nivel general y divisiones COICOP"
                        ELSE IF tipo = 2 THEN "Categorias"
                        ELSE "Bienes y servicios"
        \* general.query(...)[columnas].copy().reset_index(drop=1)
        rows == SelectSeq([i \in 1..NRows(t) |-> i], LAMBDA i :
                    t["Region"].v[i] = "Nacional" /\ t["Clasificador"].v[i] = clasificador)
        nacional == TakeRows(Select(t, columnas), rows)
        descripcion(x) == IF tipo = 2 THEN x
                          ELSE IF x = "B" THEN "Bienes"
                          ELSE IF x = "S" THEN "Servicios" ELSE "Other"
        described == IF tipo = 1 THEN nacional
                     ELSE SetCol(nacional, "Descripcion",
                                 MapCol(nacional["Codigo"], "object", descripcion))
        \* pd.to_numeric leaves the numbers read with decimal="," as they are
        s == get_date_ipc(described)
        cols == {"Codigo", "Descripcion", "Indice_IPC", "Date_Cod"}
    IN  IF tipo \notin {1, 2, 3} THEN Raise(NoTable, "TypeError")
        ELSE IF s.err # "" THEN Raise(NoTable, s.err)
        ELSE IF ~(cols \subseteq DOMAIN s.t) THEN Raise(NoTable, "KeyError")
        ELSE Ok(Select(s.t, cols))

\* the file of the INDEC: a row a month, each of the national or of a
\* regional index, of one of the classifiers
InitIndec ==
    \E run \in {r \in MonthEndRuns : r[1].y = 2024 /\ r[1].m \in {1, 12}} :
        \E kinds \in [1..Len(run) ->
                {<<"Nacional", "Nivel general y divisiones COICOP", "0">>,
                 <<"Nacional", "Categorias", "Estacional">>,
                 <<"Nacional", "Bienes y servicios", "B">>,
                 <<"GBA", "Categorias", "Estacional">>}] :
            df = [c \in IndecCols |->
                    IF c = "Periodo" THEN MapCol(Col("datetime64[ns]", run), "int64", PeriodCode)
                    ELSE IF c = "Indice_IPC"
                    THEN Col("float64", [i \in 1..Len(run) |-> FromInt(100)])
                    ELSE Col("object", [i \in 1..Len(run) |->
                            IF c = "Region" THEN kinds[i][1]
                            ELSE IF c = "Clasificador" THEN kinds[i][2]
                            ELSE IF c = "Codigo" THEN kinds[i][3]
                            ELSE "Nivel general"])]

\* no fetch is under way
ApiIdle ==
    /\ server = <<>>
    /\ arguments = <<>>
    /\ pc = "idle"
    /\ task = <<>>
    /\ completed = <<>>
    /\ bls = <<>>
    /\ pbi = <<>>
    /\ paging = <<>>

Init ==
    /\ InitDated \/ InitSplit \/ InitPeriod \/ InitFile \/ InitAcc \/ InitFetched \/ InitIndec
    /\ ApiIdle
    /\ df0 = df
    /\ df1 = NoTable
    /\ ret = NoTable
    /\ err = ""
    /\ calls = <<>>

\* The caller calls one function, and may call it again, with the same
\* arguments, on the table the call before left.
CanCall(c) ==
    /\ err = ""
    /\ Len(calls) < MaxCalls
    /\ IF calls = <<>> THEN TRUE ELSE calls[Len(calls)] = c

\* a call that works on the caller's table and returns it
InPlace(s, c) ==
    /\ df' = s.t
    /\ err' = s.err
    /\ ret' = IF s.err = "" THEN s.t ELSE NoTable
    /\ df1' = IF calls = <<>> THEN s.t ELSE df1
    /\ calls' = Append(calls, c)
    /\ UNCHANGED <<df0, apivars>>

\* a call that reads the workbook df and returns a new table
Load(s, c) ==
    /\ ret' = s.t
    /\ err' = s.err
    /\ df1' = IF calls = <<>> THEN df ELSE df1
    /\ calls' = Append(calls, c)
    /\ UNCHANGED <<df, df0, apivars>>

GetDate ==
    \E date \in DateCols, day \in BOOLEAN :
        /\ CanCall(Call("get_date", date, day))
        /\ InPlace(get_date(df, date, day), Call("get_date", date, day))

GetDateIpc ==
    /\ CanCall(Call("get_date_ipc", "", FALSE))
    /\ InPlace(get_date_ipc(df), Call("get_date_ipc", "", FALSE))

GetIpc ==
    /\ CanCall(Call("get_ipc", "", FALSE))
    /\ NRows(df) > 0
    /\ Load(get_ipc(df), Call("get_ipc", "", FALSE))

GetCpi ==
    /\ CanCall(Call("get_cpi", "", FALSE))
    /\ NRows(df) > 0
    /\ Load(get_cpi_file(df), Call("get_cpi", "", FALSE))

IpcGetActCap ==
    /\ CanCall(Call("ipc.get_act_cap", "", FALSE))
    /\ InPlace(ipc_get_act_cap(df), Call("ipc.get_act_cap", "", FALSE))

CpiGetActCap ==
    \E us \in BOOLEAN :
        /\ CanCall(Call("cpi.get_act_cap", "", us))
        /\ InPlace(cpi_get_act_cap(df, us), Call("cpi.get_act_cap", "", us))

\* a data-source helper is called with its date-code flag true, and its
\* fetch returns the table df
DataSource ==
    \E h \in Helpers :
        /\ CanCall(Call(h, "", TRUE))
        /\ DOMAIN df = FetchedCols[h] \cup {IndexCol}
        /\ Load(data_source(h, df), Call(h, "", TRUE))

\* get_monetary_base is called, in API or file mode, and its fetch returns
\* the table df
MonetaryBase ==
    \E date_cod, api, q, only_bmt \in BOOLEAN :
        LET mode == IF api THEN (IF q THEN (IF only_bmt THEN "api,q,only_bmt" ELSE "api,q")
                                 ELSE (IF only_bmt THEN "api,only_bmt" ELSE "api"))
                    ELSE (IF q THEN (IF only_bmt THEN "file,q,only_bmt" ELSE "file,q")
                          ELSE (IF only_bmt THEN "file,only_bmt" ELSE "file"))
            c == Call("get_monetary_base", mode, date_cod)
        IN  /\ CanCall(c)
            /\ DOMAIN df = monetary_base_fetch(api, q, only_bmt) \cup {IndexCol}
            /\ Load(get_monetary_base(df, date_cod, api, q, only_bmt), c)

\* get_rates is called, in API or file mode, and its fetch returns the
\* table df; a type that is none of 0, 1, 2 fetches nothing
Rates ==
    \E date_cod, api \in BOOLEAN, type \in 0..3 :
        LET mode == IF api THEN <<"api,0", "api,1", "api,2", "api,3">>[type + 1]
                    ELSE <<"file,0", "file,1", "file,2", "file,3">>[type + 1]
            c == Call("get_rates", mode, date_cod)
        IN  /\ CanCall(c)
            /\ DOMAIN df = rates_fetch(api, IF type = 3 THEN 0 ELSE type) \cup {IndexCol}
            /\ Load(get_rates(df, date_cod, api, type), c)

\* get_div_ipc is called and reads the file df; tipo 4 is any other value
GetDivIpc ==
    \E tipo \in 1..4 :
        LET c == Call("get_div_ipc", <<"tipo=1", "tipo=2", "tipo=3", "tipo=4">>[tipo], FALSE)
        IN  /\ CanCall(c)
            /\ DOMAIN df = IndecCols
            /\ Load(get_div_ipc(df, tipo), c)

Next ==
    \/ GetDate
    \/ GetDateIpc
    \/ GetIpc
    \/ GetCpi
    \/ IpcGetActCap
    \/ CpiGetActCap
    \/ DataSource
    \/ MonetaryBase
    \/ Rates
    \/ GetDivIpc

Spec == Init /\ [][Next]_vars

(***************************************************************************)
(* What the claims are stated in: the Gregorian calendar by day counts,    *)
(* the MM-YYYY code digit by digit, and the calls made.                    *)
(***************************************************************************)
\* the number of the day y-m-d, counted from 1970-01-01
DaysFromCivil(y, m, d) ==
    LET yy == IF m <= 2 THEN y - 1 ELSE y
        era == yy \div 400
        yoe == yy - era * 400
        mp == (m + 9) % 12
        doy == (153 * mp + 2) \div 5 + d - 1
        doe == yoe * 365 + yoe \div 4 - yoe \div 100 + doy
    IN  era * 146097 + doe - 719468

FirstOfNextMonth(y, m) == IF m < 12 THEN <<y, m + 1>> ELSE <<y + 1, 1>>

\* the days of the month m of the year y of the Gregorian calendar
GregorianDays(y, m) ==
    LET nx == FirstOfNextMonth(y, m)
    IN  DaysFromCivil(nx[1], nx[2], 1) - DaysFromCivil(y, m, 1)

\* ts is the last calendar day of the month m of the year y
IsLastDayOf(ts, y, m) ==
    LET nx == FirstOfNextMonth(y, m)
    IN  /\ ts.y = y /\ ts.m = m
        /\ DaysFromCivil(ts.y, ts.m, ts.d) + 1 = DaysFromCivil(nx[1], nx[2], 1)

\* two digits of month, a hyphen, four digits of year
MonthYearCode(m, y) ==
    <<DigitChar(m \div 10), DigitChar(m % 10), "-",
      DigitChar(y \div 1000), DigitChar((y \div 100) % 10),
      DigitChar((y \div 10) % 10), DigitChar(y % 10)>>

Rows(t) == 1..NRows(t)

FirstCallIs(op) == Len(calls) = 1 /\ calls[1].op = op

\* the first call was get_date on a table whose date column holds dates
DateCoded ==
    /\ calls # <<>>
    /\ calls[1].op = "get_date"
    /\ calls[1].date \in DOMAIN df0
    /\ is_datetime64_dtype(df0[calls[1].date])

\* C1: for every table whose date column holds valid dates, get_date sets in
\* each row month to the month of the row's date (1-12), year to its year,
\* and Date_Cod to the zero-padded month, a hyphen and the four-digit year.
C1_DateCode ==
    (DateCoded /\ Len(calls) = 1) =>
        /\ err = ""
        /\ {"month", "year", "Date_Cod"} \subseteq DOMAIN df
        /\ \A i \in Rows(df0) :
            LET d == df0[calls[1].date].v[i]
            IN  /\ df["month"].v[i] = d.m
                /\ df["month"].v[i] \in 1..12
                /\ df["year"].v[i] = d.y
                /\ df["Date_Cod"].v[i] = MonthYearCode(d.m, d.y)

\* C1's case: a leap day coded 02-2024, the month padded with a zero
C1_Witness ==
    /\ DateCoded /\ Len(calls) = 1 /\ err = ""
    /\ \E i \in Rows(df0) :
        /\ df0[calls[1].date].v[i] = MkDate(2024, 2, 29)
        /\ df["Date_Cod"].v[i] = <<"0", "2", "-", "2", "0", "2", "4">>

(***************************************************************************)
(* The accrual calculator.                                                 *)
(***************************************************************************)
IsActCap(c) == c.op \in {"ipc.get_act_cap", "cpi.get_act_cap"}

\* the columns the first call reads and writes
IdxName == IF calls[1].op = "ipc.get_act_cap" THEN "IPC" ELSE "CPI"

InflName ==
    IF calls[1].op = "cpi.get_act_cap" /\ calls[1].day THEN "InflaMensual_US"
    ELSE "InflaMensual"

ActName ==
    IF calls[1].op = "cpi.get_act_cap" /\ calls[1].day THEN "ActualizadorUS"
    ELSE "Actualizador"

CapName ==
    IF calls[1].op = "cpi.get_act_cap" /\ calls[1].day THEN "CapitalizadorUS"
    ELSE "Capitalizador"

\* get_act_cap was called once, on a non-empty table that has its columns
Accrued ==
    /\ Len(calls) = 1
    /\ IsActCap(calls[1])
    /\ {IdxName, InflName, "day", "CantD"} \subseteq DOMAIN df0
    /\ NRows(df0) >= 1

\* the input index, 1 + the input inflation, and the rebasing constant
InIdx(r) == df0[IdxName].v[r]

InGrowth(r) == RAdd(One, df0[InflName].v[r])

RebaseK == RDiv(InIdx(1), InGrowth(1))

\* C2: step 1 of get_act_cap: for every non-empty table the index of row r
\* becomes (index[r] / (1 + inflation[r])) / (index[0] / (1 + inflation[0])),
\* so the index of the first row equals 1.
C2_Rebase ==
    Accrued =>
        /\ err = ""
        /\ \A r \in Rows(df0) :
            df[IdxName].v[r] = RDiv(RDiv(InIdx(r), InGrowth(r)), RebaseK)
        /\ df[IdxName].v[1] = One

\* C3 as claimed: the update factor is the rebased index times
\* (1 + inflation) ^ (day / daysInMonth); in every row whose day is the last
\* of its month it equals the rebased index times (1 + inflation), that is
\* the input index divided by the rebasing constant.
C3_Original ==
    Accrued =>
        /\ err = ""
        /\ \A r \in Rows(df0) :
            /\ df[ActName].v[r] =
                RMul(df[IdxName].v[r],
                     RPow(InGrowth(r), QNorm(df0["day"].v[r], df0["CantD"].v[r])))
            /\ df0["day"].v[r] = df0["CantD"].v[r] =>
                /\ df[ActName].v[r] = RMul(df[IdxName].v[r], InGrowth(r))
                /\ df[ActName].v[r] = RDiv(InIdx(r), RebaseK)

\* C3 as amended: the same, the last equality for the rows whose monthly
\* inflation is not missing; a row whose inflation is missing has a missing
\* update factor.
C3_UpdateFactor ==
    Accrued =>
        /\ err = ""
        /\ \A r \in Rows(df0) :
            /\ df[ActName].v[r] =
                RMul(df[IdxName].v[r],
                     RPow(InGrowth(r), QNorm(df0["day"].v[r], df0["CantD"].v[r])))
            /\ df0["day"].v[r] = df0["CantD"].v[r] =>
                /\ df[ActName].v[r] = RMul(df[IdxName].v[r], InGrowth(r))
                /\ IsNum(df0[InflName].v[r]) =>
                    df[ActName].v[r] = RDiv(InIdx(r), RebaseK)
            /\ IsNaN(df0[InflName].v[r]) => IsNaN(df[ActName].v[r])

\* C3's case: a month-end row with a 4 % inflation after a first row with a
\* defined rebasing constant: its update factor is index / constant, a number
C3_Witness ==
    /\ Accrued /\ err = ""
    /\ IsNum(RebaseK)
    /\ \E r \in Rows(df0) :
        /\ r > 1
        /\ df0["day"].v[r] = df0["CantD"].v[r]
        /\ InGrowth(r) = FromFrac(<<26, 25>>)
        /\ IsNum(df[ActName].v[r])
        /\ df[ActName].v[r] = RDiv(InIdx(r), RebaseK)

\* C4: step 3 of get_act_cap: for every non-empty table
\* capitalizationFactor[r] * updateFactor[r] = updateFactor[last] in every
\* row, so the capitalization factor of the last row equals 1.
C4_Capitalization ==
    Accrued =>
        /\ err = ""
        /\ \A r \in Rows(df0) :
            RMul(df[CapName].v[r], df[ActName].v[r]) = df[ActName].v[NRows(df0)]
        /\ df[CapName].v[NRows(df0)] = One

\* only the first row of the input misses its monthly inflation
FirstInflationMissing ==
    /\ IsNaN(df0[InflName].v[1])
    /\ \A r \in Rows(df0) : r > 1 => IsNum(df0[InflName].v[r])

\* C5: for a table whose first row misses its monthly inflation and whose
\* later rows have one, get_act_cap yields a rebased index of 1 in the
\* first row and in every row whose index / (1 + inflation) equals the first
\* index, and a capitalization factor of exactly 1 in the last row.
C5_Scenario ==
    (Accrued /\ FirstInflationMissing) =>
        /\ err = ""
        /\ df[IdxName].v[1] = One
        /\ \A r \in Rows(df0) :
            RDiv(InIdx(r), InGrowth(r)) = InIdx(1) => df[IdxName].v[r] = One
        /\ df[CapName].v[NRows(df0)] = One

\* C6: when the monthly inflation of the first row is missing, get_act_cap
\* does not fail and the missing value stays in that row: every other row
\* with a defined index and inflation gets a defined index, update factor
\* and capitalization factor.
C6_MissingConfined ==
    (Accrued /\ IsNaN(df0[InflName].v[1])) =>
        /\ err = ""
        /\ \A r \in Rows(df0) :
            (r > 1 /\ IsNum(InIdx(r)) /\ IsNum(df0[InflName].v[r])) =>
                /\ IsNum(df[IdxName].v[r])
                /\ IsNum(df[ActName].v[r])
                /\ IsNum(df[CapName].v[r])

(***************************************************************************)
(* The alternate input shape, the period coder, the loaders, idempotence.  *)
(***************************************************************************)
\* C7: for a table whose date column is not date-typed but which carries
\* month and year columns, get_date returns, for either value of the day
\* flag, a table whose Date_Cod is the MM-YYYY code of those fields, and
\* raises no error.
C7_AlternateShape ==
    (/\ FirstCallIs("get_date")
     /\ calls[1].date \in DOMAIN df0
     /\ ~is_datetime64_dtype(df0[calls[1].date])
     /\ {"month", "year"} \subseteq DOMAIN df0) =>
        /\ err = ""
        /\ "Date_Cod" \in DOMAIN ret
        /\ \A i \in Rows(df0) :
            ret["Date_Cod"].v[i] =
                MonthYearCode(df0["month"].v[i], df0["year"].v[i])

\* the number a period code stands for, integer or text
PeriodNumber(col, i) ==
    IF col.dtype = "int64" THEN col.v[i] ELSE StrToInt(col.v[i])

\* C8: for every period code YYYYMM, integer or text, with month 01-12,
\* get_date_ipc gives the row the last calendar day of that month as its
\* date (29 February in leap years), MM as its month and YYYY as its year.
C8_PeriodCode ==
    (FirstCallIs("get_date_ipc") /\ "Periodo" \in DOMAIN df0) =>
        /\ err = ""
        /\ {"month", "Anio", "Date"} \subseteq DOMAIN df
        /\ \A i \in Rows(df0) :
            LET code == PeriodNumber(df0["Periodo"], i)
                yyyy == code \div 100
                mm == code % 100
            IN  /\ IsLastDayOf(df["Date"].v[i], yyyy, mm)
                /\ df["month"].v[i] = mm
                /\ df["Anio"].v[i] = yyyy

\* C8's case: the text code 202403 gives 2024-03-31, month 3, year 2024
C8_Witness ==
    /\ FirstCallIs("get_date_ipc") /\ err = ""
    /\ "Periodo" \in DOMAIN df0
    /\ df0["Periodo"].dtype = "object"
    /\ \E i \in Rows(df0) :
        /\ df0["Periodo"].v[i] = <<"2", "0", "2", "4", "0", "3">>
        /\ df["Date"].v[i] = MkDate(2024, 3, 31)
        /\ df["month"].v[i] = 3
        /\ df["Anio"].v[i] = 2024

\* the first call was a loader, given a workbook it reads
Loaded ==
    /\ Len(calls) = 1
    /\ \/ calls[1].op = "get_ipc" /\ {"Date", "IPC"} \subseteq DOMAIN df0
       \/ calls[1].op = "get_cpi" /\ {"Date", "CPI"} \subseteq DOMAIN df0
    /\ is_datetime64_dtype(df0["Date"])

\* C9: in every monthly index table built by the loaders (ipc.get_ipc and
\* cpi.get_cpi with api=False) the CantD of each row is the Gregorian number
\* of days of the row's year and month.
C9_DaysInMonth ==
    Loaded =>
        /\ err = ""
        /\ "CantD" \in DOMAIN ret
        /\ \A i \in Rows(df0) :
            ret["CantD"].v[i] =
                GregorianDays(df0["Date"].v[i].y, df0["Date"].v[i].m)

\* C10: get_date is idempotent: applied a second time, with the same date
\* column and day flag, to the table it returned, it yields the month, year,
\* Date_Cod and day columns of the first application.
C10_Idempotent ==
    (DateCoded /\ Len(calls) = 2) =>
        /\ err = ""
        /\ DOMAIN df = DOMAIN df1
        /\ \A c \in {"month", "year", "Date_Cod", "day"} \cap DOMAIN df1 :
            ColEq(df[c], df1[c])

\* C10's case: a second application with the day flag on a table with rows
C10_Witness ==
    /\ DateCoded /\ Len(calls) = 2 /\ err = ""
    /\ calls[2] = calls[1]
    /\ calls[1].day
    /\ NRows(df) = MaxRows
    /\ {"month", "year", "Date_Cod", "day"} \subseteq DOMAIN df
    /\ ColEq(df["day"], df1["day"])

(***************************************************************************)
(* The day column and the caller's table.                                  *)
(***************************************************************************)
\* the day of the month of the day number n counted from 1970-01-01, by
\* counting back from the date's own number to the first of its month
DayOfMonth(ts) ==
    DaysFromCivil(ts.y, ts.m, ts.d) - DaysFromCivil(ts.y, ts.m, 1) + 1

\* C11: called with the day flag true on a table whose date column holds
\* dates, get_date adds a day column equal to each row's day of the month
\* (1-31); called with the flag false it adds no day column (a day column
\* the table already had stays as it was), and the table get_ipc builds
\* through get_date(day=False) has no day column.
C11_DayColumn ==
    /\ (DateCoded /\ Len(calls) = 1) =>
        /\ err = ""
        /\ IF calls[1].day
           THEN /\ "day" \in DOMAIN df
                /\ NRows(df) = NRows(df0)
                /\ \A i \in Rows(df0) :
                    /\ df["day"].v[i] = DayOfMonth(df0[calls[1].date].v[i])
                    /\ df["day"].v[i] \in 1..31
           ELSE /\ ("day" \in DOMAIN df) = ("day" \in DOMAIN df0)
                /\ "day" \in DOMAIN df0 => ColEq(df["day"], df0["day"])
    /\ (Loaded /\ calls[1].op = "get_ipc" /\ err = "") => "day" \notin DOMAIN ret

\* C11's case: the flag true on a table with a leap day and no day column
\* before the call
C11_Witness ==
    /\ DateCoded /\ Len(calls) = 1 /\ err = ""
    /\ "day" \notin DOMAIN df0
    /\ calls[1].day
    /\ \E i \in Rows(df0) :
        /\ df0[calls[1].date].v[i] = MkDate(2024, 2, 29)
        /\ df["day"].v[i] = 29

\* C12: get_date has no side effect beyond the table it returns: after the
\* call the table the caller passed in has the columns and the values it had
\* before the call.
C12_CallerTableKept ==
    (Len(calls) = 1 /\ calls[1].op = "get_date") =>
        /\ DOMAIN df = DOMAIN df0
        /\ \A c \in DOMAIN df0 : ColEq(df[c], df0[c])

(***************************************************************************)
(* Properties of the accrual factors: round trip, order, anchor.           *)
(***************************************************************************)
\* get_act_cap was called on a one-row table whose monthly inflation is 0
\* and whose index is a positive number
SingleFlat ==
    /\ Accrued
    /\ NRows(df0) = 1
    /\ df0[InflName].v[1] = Zero
    /\ IsNum(InIdx(1)) /\ InIdx(1).sg = 1
    /\ df0["day"].v[1] \in 1..df0["CantD"].v[1]

\* C13 as stated: on such a table the update factor equals the index value
\* the table was given, and the capitalization factor is 1.
C13_Original ==
    SingleFlat =>
        /\ err = ""
        /\ df[ActName].v[1] = InIdx(1)
        /\ df[CapName].v[1] = One

\* C13, amended: on such a table the update factor equals the index column
\* as get_act_cap leaves it, the rebased index, which is 1 whatever index
\* value was given; the capitalization factor is 1.
C13_RoundTrip ==
    SingleFlat =>
        /\ err = ""
        /\ df[ActName].v[1] = df[IdxName].v[1]
        /\ df[IdxName].v[1] = One
        /\ df[CapName].v[1] = One

\* C13's case: index 110, inflation 0, the 15th of the month
C13_Witness ==
    /\ SingleFlat /\ err = ""
    /\ InIdx(1) = FromInt(110)
    /\ df0["day"].v[1] = 15
    /\ df[ActName].v[1] = One
    /\ df[CapName].v[1] = One

\* The order of two positive numbers, decided from the natural logarithms of
\* the primes rounded to four decimals (in units of 1/10000); the rounding
\* error of a sum of n logarithms is below n/2 units, so a difference larger
\* than the number of logarithms summed is the sign of the exact difference.
LnPrime ==
    (2 :> 6931) @@ (3 :> 10986) @@ (5 :> 16094) @@ (7 :> 19459) @@
    (11 :> 23979) @@ (13 :> 25649)

Lcm(a, b) == (a * b) \div GCD(a, b)

RECURSIVE ExpLcm(_, _)
\* the common denominator of the exponents of a
ExpLcm(a, i) ==
    IF i > Len(Primes) THEN 1
    ELSE Lcm(a.ex[Primes[i]][2], ExpLcm(a, i + 1))

RECURSIVE LogSum(_, _, _, _)
\* den * the sum of the exponents of a, each weighted by w[p] (or by 1 in
\* absolute value when w is the empty function)
LogSum(a, den, w, i) ==
    IF i > Len(Primes) THEN 0
    ELSE LET p == Primes[i]
             n == a.ex[p][1] * (den \div a.ex[p][2])
         IN  (IF p \in DOMAIN w THEN n * w[p] ELSE Abs(n))
             + LogSum(a, den, w, i + 1)

NoWeight == [p \in {} |-> 0]

\* a < b for positive numbers a and b, certainly
RLess(a, b) ==
    /\ IsNum(a) /\ IsNum(b) /\ a.sg = 1 /\ b.sg = 1
    /\ LET da == ExpLcm(a, 1)
           db == ExpLcm(b, 1)
       IN  LogSum(a, da, LnPrime, 1) * db
             + LogSum(a, da, NoWeight, 1) * db + LogSum(b, db, NoWeight, 1) * da
           < LogSum(b, db, LnPrime, 1) * da

RLeq(a, b) == a = b \/ RLess(a, b)

\* the day number of the date of row r of the table given
DateNo(r) ==
    LET ts == df0["Date"].v[r] IN DaysFromCivil(ts.y, ts.m, ts.d)

\* get_act_cap was called on a table in date order whose monthly inflation
\* is strictly positive in every row
Rising ==
    /\ Accrued
    /\ \A r \in Rows(df0) : IsNum(df0[InflName].v[r]) /\ df0[InflName].v[r].sg = 1
    /\ \A r, q \in Rows(df0) : r <= q => DateNo(r) <= DateNo(q)

\* C14: for every table in date order whose monthly inflation (the change of
\* the index from the month before) is strictly positive in every row, the
\* update factor of a row is at most the update factor of every row of the
\* same or a later date.
C14_Monotone ==
    Rising =>
        /\ err = ""
        /\ \A r, q \in Rows(df0) :
            DateNo(r) <= DateNo(q) => RLeq(df[ActName].v[r], df[ActName].v[q])

\* C14's case: a row in the middle of a month followed by a row in the
\* middle of the next month, the update factor growing
C14_Witness ==
    /\ Rising /\ err = ""
    /\ NRows(df0) = 2
    /\ df0["Date"].v[1].m # df0["Date"].v[2].m
    /\ df0["day"].v[1] = 15 /\ df0["day"].v[2] = 15
    /\ RLess(df[ActName].v[1], df[ActName].v[2])

\* C15: for every non-empty table, in whatever order its rows are given,
\* the capitalization factor of every row holding the latest date is 1.
C15_LatestAnchored ==
    Accrued =>
        /\ err = ""
        /\ \A r \in Rows(df0) :
            (\A q \in Rows(df0) : DateNo(q) <= DateNo(r)) => df[CapName].v[r] = One

(***************************************************************************)
(* bcra.py: the BCRA API and get_from_api.                                 *)
(*                                                                         *)
(* The API holds, for each variable id, rows {idVariable, fecha, valor}.   *)
(* A request names a window of dates, or none (the first request), and the *)
(* API answers with the rows it holds inside the window, in the order it   *)
(* holds them, at most limit rows.  The frame get_from_api accumulates is  *)
(* the sequence of the rows received, indexed by their fecha text.         *)
(***************************************************************************)
\* ?limit=3000
limit == 3000

\* pd.offsets.DateOffset(3000): 3000 days
DateOffsetDays == 3000

\* the number of days from 1970-01-01 to the Timestamp ts
Ordinal(ts) == DaysFromCivil(ts.y, ts.m, ts.d)

\* ts - pd.offsets.DateOffset(n): the Timestamp n days before ts
MinusDays(ts, n) ==
    LET
        \* the Timestamp of the day number z counted from 1970-01-01
        CivilFromDays(z) ==
            LET zz == z + 719468
                era == zz \div 146097
                doe == zz - era * 146097
                yoe == (doe - doe \div 1460 + doe \div 36524 - doe \div 146096) \div 365
                doy == doe - (365 * yoe + yoe \div 4 - yoe \div 100)
                mp == (5 * doy + 2) \div 153
                d == doy - (153 * mp + 2) \div 5 + 1
                m == IF mp < 10 THEN mp + 3 ELSE mp - 9
            IN  MkDate(yoe + era * 400 + (IF m <= 2 THEN 1 ELSE 0), m, d)
    IN
    CivilFromDays(Ordinal(ts) - n)

\* the fecha of a row of the API: YYYY-MM-DD
IsoText(ts) == Fmt_Y(ts.y) \o <<"-">> \o Fmt_m(ts.m) \o <<"-">> \o Fmt_m(ts.d)

\* pd.to_datetime of a fecha
to_datetime_iso(s) ==
    IF Len(s) # 10 \/ s[5] # "-" \/ s[8] # "-" THEN BadDate
    ELSE LET ys == SubSeq(s, 1, 4)
             ms == SubSeq(s, 6, 7)
             ds == SubSeq(s, 9, 10)
         IN  IF ~(AllDigits(ys) /\ AllDigits(ms) /\ AllDigits(ds)) THEN BadDate
             ELSE MkDate(StrToInt(ys), StrToInt(ms), StrToInt(ds))

\* the day the API is asked on, and the ages in days of the observations it
\* may hold: today's, yesterday's, and the two around the far edge of a
\* window
ApiToday == MkDate(2024, 3, 1)

\* the dates of the rows the API holds of a variable, in the API's order
ApiSeries ==
    LET
        ApiDates ==
            LET
                ApiAges == {0, 1, DateOffsetDays, DateOffsetDays + 1}
            IN
            {MinusDays(ApiToday, a) : a \in ApiAges}
    IN
    UNION {[1..n -> ApiDates] : n \in 0..MaxObs}

ApiHeld(id, dates) ==
    LET
        \* row k of variable id: its valor tells the variable and the row
        ApiRow(id1, k, ts) ==
            [idVariable |-> id1, fecha |-> IsoText(ts),
             valor |-> FromInt((IF id1 = 1 THEN 3 ELSE 5) * IPow(2, k))]
    IN
    [k \in 1..Len(dates) |-> ApiRow(id, k, dates[k])]

\* a request: the first one names no window
FirstRequest == [all |-> TRUE, desde |-> BadDate, hasta |-> BadDate]

\* response.json()['results'] of a request for the rows held
Results(held, req) ==
    LET
        InWindow(row, req1) ==
            \/ req1.all
            \/ LET n == Ordinal(to_datetime_iso(row.fecha))
               IN  Ordinal(req1.desde) <= n /\ n <= Ordinal(req1.hasta)
    IN
    LET hit == SelectSeq(held, LAMBDA row : InWindow(row, req))
    IN  SubSeq(hit, 1, IF Len(hit) < limit THEN Len(hit) ELSE limit)

\* pd.DataFrame(results).drop(columns=['idVariable']).set_index('fecha')
PageFrame(results) ==
    [i \in 1..Len(results) |-> [fecha |-> results[i].fecha, valor |-> results[i].valor]]

\* the window asked for next: the 3000 days before the last row of the frame
NextRequest(frame) ==
    LET
        Window(desde, hasta) == [all |-> FALSE, desde |-> desde, hasta |-> hasta]
    IN
    LET last == to_datetime_iso(frame[Len(frame)].fecha)
    IN  Window(MinusDays(last, DateOffsetDays), MinusDays(last, 1))

RECURSIVE InsertRow(_, _)
\* row put after the rows of sorted that are not later than it
InsertRow(sorted, row) ==
    IF sorted = <<>> THEN <<row>>
    ELSE IF Ordinal(sorted[Len(sorted)].date) <= Ordinal(row.date)
         THEN Append(sorted, row)
    ELSE Append(InsertRow(SubSeq(sorted, 1, Len(sorted) - 1), row),
                sorted[Len(sorted)])

\* the rows left in the order they came in
KeepRows(rows) == rows

RECURSIVE SortRows(_)
\* sort_index(): rows of equal dates keep their order (numpy sorts an array
\* of this length by insertion)
SortRows(rows) ==
    IF rows = <<>> THEN <<>>
    ELSE InsertRow(SortRows(SubSeq(rows, 1, Len(rows) - 1)), rows[Len(rows)])

\* a table with a date index: the index and the columns, left to right
Frame(index, cols) == [index |-> index, cols |-> cols]

NoFrame == Frame(<<>>, <<>>)

\* df.index = pd.to_datetime(df.index); df.columns = [nombre];
\* return df.sort_index()
api_finish(frame, nombre) ==
    LET rows == SortRows([i \in 1..Len(frame) |->
                    [date |-> to_datetime_iso(frame[i].fecha), valor |-> frame[i].valor]])
    IN  Frame([i \in 1..Len(rows) |-> rows[i].date],
              <<[name |-> nombre, v |-> [i \in 1..Len(rows) |-> rows[i].valor]]>>)

RECURSIVE api_pages(_, _)
\* the while loop: the frame with every further page appended
api_pages(held, frame) ==
    LET results == Results(held, NextRequest(frame))
    IN  IF results = <<>> THEN frame
        ELSE api_pages(held, frame \o PageFrame(results))

\* get_from_api(idvariable, nombre), every request answered
get_from_api(held, nombre) ==
    LET first == Results(held, FirstRequest)
    IN  IF first = <<>> THEN [t |-> NoFrame, err |-> "KeyError"]
        ELSE [t |-> api_finish(api_pages(held, PageFrame(first)), nombre), err |-> ""]

(***************************************************************************)
(* bcra.py: get_series_api.  executor.map hands one get_from_api call per  *)
(* pair to the pool; leaving the with block waits for every call to end;   *)
(* list(results) then takes the results in the order of the pairs, raising *)
(* the exception of the first call that failed.                            *)
(***************************************************************************)

RECURSIVE SortedDates(_)
\* the dates of a set, oldest first
SortedDates(S) ==
    IF S = {} THEN <<>>
    ELSE LET first == CHOOSE x \in S : \A y \in S : Ordinal(x) <= Ordinal(y)
         IN  <<first>> \o SortedDates(S \ {first})

RECURSIVE ColumnsOn(_, _, _)
\* the columns of the frames from the i-th on, left to right, on the index ix
ColumnsOn(frames, ix, i) ==
    LET
        \* a column of a frame indexed by index, laid out on the index ix
        Reindex(col, index, ix1) ==
            [name |-> col.name,
             v |-> [j \in 1..Len(ix1) |->
                      IF \E i1 \in 1..Len(index) : index[i1] = ix1[j]
                      THEN col.v[CHOOSE i1 \in 1..Len(index) : index[i1] = ix1[j]]
                      ELSE NaN]]
    IN
    IF i > Len(frames) THEN <<>>
    ELSE [c \in 1..Len(frames[i].cols) |-> Reindex(frames[i].cols[c], frames[i].index, ix)]
         \o ColumnsOn(frames, ix, i + 1)

\* pd.concat(frames, axis='columns'): frames with one common index are put
\* side by side; otherwise the rows are aligned on the sorted union of the
\* indexes, which pandas refuses when an index holds a date twice
concat_columns(frames) ==
    LET
        HasDuplicates(index) ==
            \E i, j \in 1..Len(index) : i < j /\ index[i] = index[j]
    IN
    IF \A i \in 1..Len(frames) : frames[i].index = frames[1].index
    THEN [t |-> Frame(frames[1].index, ColumnsOn(frames, frames[1].index, 1)), err |-> ""]
    ELSE IF \E i \in 1..Len(frames) : HasDuplicates(frames[i].index)
    THEN [t |-> NoFrame, err |-> "InvalidIndexError"]
    ELSE LET ix == SortedDates(UNION {{frames[i].index[j] : j \in 1..Len(frames[i].index)} :
                                        i \in 1..Len(frames)})
         IN  [t |-> Frame(ix, ColumnsOn(frames, ix, 1)), err |-> ""]

\* the outcomes of the calls in the order the calls ended
as_completed_results(tasks, ended) ==
    [i \in 1..Len(ended) |-> [t |-> tasks[ended[i]].res, err |-> tasks[ended[i]].err]]

\* the outcomes of the calls in the order of the pairs: what executor.map
\* yields
map_results(tasks, ended) ==
    [k \in 1..Len(tasks) |-> [t |-> tasks[k].res, err |-> tasks[k].err]]

\* df = pd.concat(list(results), axis='columns'); df.index.name = None;
\* if date: df['Date'] = df.index; return df
series_api_result(results, date) ==
    IF \E k \in 1..Len(results) : results[k].err # ""
    THEN LET k == CHOOSE i \in 1..Len(results) :
                    /\ results[i].err # ""
                    /\ \A j \in 1..(i - 1) : results[j].err = ""
         IN  [t |-> NoFrame, err |-> results[k].err]
    ELSE LET c == concat_columns([k \in 1..Len(results) |-> results[k].t])
         IN  IF c.err # "" \/ ~date THEN c
             ELSE [t |-> Frame(c.t.index,
                               Append(c.t.cols, [name |-> "Date", v |-> c.t.index])),
                   err |-> ""]

\* get_series_api(arguments, date) with the calls made one after the other
get_series_api(held, args, date) ==
    series_api_result([k \in 1..Len(args) |-> get_from_api(held[args[k][1]], args[k][2])],
                      date)

\* the pairs get_series_api is given: one variable, two, two the other way
\* round, and three of which one variable is asked for twice
ApiArguments ==
    { <<<<1, "A">>>>,
      <<<<1, "A">>, <<2, "B">>>>,
      <<<<2, "B">>, <<1, "A">>>>,
      <<<<1, "A">>, <<2, "B">>, <<1, "C">>>> }

InitSeriesApi ==
    LET
        \* the rows held of the second variable: today's row, or two of yesterday
        ApiSecond == {<<ApiToday>>, <<MinusDays(ApiToday, 1), MinusDays(ApiToday, 1)>>}
    IN
    /\ df = NoTable /\ df0 = NoTable /\ df1 = NoTable
    /\ ret = NoFrame
    /\ err = ""
    /\ calls = <<>>
    /\ \E s1 \in ApiSeries, s2 \in ApiSecond :
            server = <<ApiHeld(1, s1), ApiHeld(2, s2)>>
    /\ arguments \in ApiArguments
    /\ pc = "call"
    /\ task = <<>>
    /\ completed = <<>>
    /\ bls = <<>>
    /\ pbi = <<>>
    /\ paging = <<>>

Finished(k) == task[k].st \in {"done", "failed"}

\* get_series_api is called: executor.map submits every call
Submit ==
    LET
        \* a call of get_from_api waiting in the pool's queue
        Queued(id, nombre) ==
            [st |-> "queued", id |-> id, nombre |-> nombre, req |-> FirstRequest,
             frame |-> <<>>, res |-> NoFrame, err |-> ""]
    IN
    /\ pc = "call"
    /\ \E date \in BOOLEAN : calls' = <<Call("get_series_api", "", date)>>
    /\ task' = [k \in 1..Len(arguments) |-> Queued(arguments[k][1], arguments[k][2])]
    /\ pc' = "submitted"
    /\ UNCHANGED <<paging, pbi, df, df0, df1, ret, err, server, arguments, completed, bls>>

Start ==
    LET
        \* a free thread of the pool takes the oldest call of the queue and sends
        \* its first request
        TaskStart(k) ==
            /\ task[k].st = "queued"
            /\ \A j \in 1..(k - 1) : task[j].st # "queued"
            /\ Cardinality({j \in DOMAIN task : task[j].st = "running"}) < max_workers
            /\ task' = [task EXCEPT ![k].st = "running"]
            /\ UNCHANGED <<paging, pbi, df, df0, df1, ret, err, calls, server, arguments, pc, completed, bls>>
    IN
    \E k \in DOMAIN task : TaskStart(k)

Response ==
    LET
        \* the API answers the request of a call: the first page makes the frame, a
        \* further page is appended to it, and an empty one ends the loop
        TaskResponse(k) ==
            /\ task[k].st = "running"
            /\ LET results == Results(server[task[k].id], task[k].req)
                   frame == task[k].frame \o PageFrame(results)
               IN  IF results # <<>>
                   THEN /\ task' = [task EXCEPT ![k].frame = frame, ![k].req = NextRequest(frame)]
                        /\ UNCHANGED completed
                   ELSE /\ task' = IF task[k].req.all
                                   THEN [task EXCEPT ![k].st = "failed", ![k].err = "KeyError"]
                                   ELSE [task EXCEPT ![k].st = "done",
                                                     ![k].res = api_finish(task[k].frame, task[k].nombre)]
                        /\ completed' = Append(completed, k)
            /\ UNCHANGED <<paging, pbi, df, df0, df1, ret, err, calls, server, arguments, pc, bls>>
    IN
    \E k \in DOMAIN task : TaskResponse(k)

NetFail ==
    LET
        \* the request of a call fails on the network: requests.get raises
        TaskNetFail(k) ==
            /\ task[k].st = "running"
            /\ task' = [task EXCEPT ![k].st = "failed", ![k].err = "ConnectionError"]
            /\ completed' = Append(completed, k)
            /\ UNCHANGED <<paging, pbi, df, df0, df1, ret, err, calls, server, arguments, pc, bls>>
    IN
    \E k \in DOMAIN task : TaskNetFail(k)

\* the with block left at once, without waiting for the calls
JoinWithoutWaiting ==
    /\ pc = "submitted"
    /\ pc' = "joined"
    /\ UNCHANGED <<paging, pbi, df, df0, df1, ret, err, calls, server, arguments, task, completed, bls>>

\* the end of the with block: shutdown(wait=True) returns when every call
\* has ended
Join ==
    /\ pc = "submitted"
    /\ \A k \in DOMAIN task : Finished(k)
    /\ pc' = "joined"
    /\ UNCHANGED <<paging, pbi, df, df0, df1, ret, err, calls, server, arguments, task, completed, bls>>

\* list(results), pd.concat and the return
Concat ==
    /\ pc = "joined"
    /\ LET out == series_api_result(map_results(task, completed), calls[1].day)
       IN  ret' = out.t /\ err' = out.err
    /\ pc' = "done"
    /\ UNCHANGED <<paging, pbi, df, df0, df1, calls, server, arguments, task, completed, bls>>

(***************************************************************************)
(* cpi.py: get_cpi(api=True) and the BLS API.  The BLS holds, per series,  *)
(* rows {year, period, value, latest}, newest first; a request names a     *)
(* start year and is answered with the rows of the twenty years from it.   *)
(* _fetch_bls_data catches the failures of a request and returns None.     *)
(***************************************************************************)
\* the two series taken for each other
bls_series_ids_swapped(witch) ==
    IF witch = 0 THEN <<"CUUR0000SA0", "CUUR0000AA0">>
    ELSE IF witch = 1 THEN <<"CUUR0000AA0">>
    ELSE IF witch = 2 THEN <<"CUUR0000SA0">>
    ELSE <<>>

\* the series ids of a value of witch; none for any other value
bls_series_ids(witch) ==
    IF witch = 0 THEN <<"CUUR0000SA0", "CUUR0000AA0">>
    ELSE IF witch = 1 THEN <<"CUUR0000SA0">>
    ELSE IF witch = 2 THEN <<"CUUR0000AA0">>
    ELSE <<>>

\* inicio = 1900, and inicio += 20
inicio0 == 1900

inicio_step == 20

\* the (year, month) of the rows the BLS holds, newest first: a row at least
\* in each span of twenty years from 1900, and an annual average (M13)
BlsObs ==
    << <<2024, 2>>, <<2024, 1>>, <<2023, 13>>, <<2005, 6>>, <<1985, 6>>,
       <<1965, 6>>, <<1945, 6>>, <<1925, 6>>, <<1913, 1>> >>

\* the rows held of each series from the year since on
BlsHeld(since) ==
    LET
        BlsRow(sid, i) ==
            [year |-> IntToStr(BlsObs[i][1]),
             period |-> <<"M">> \o Fmt_m(BlsObs[i][2]),
             value |-> IntToStr((IF sid = "CUUR0000SA0" THEN 1 ELSE 3) * IPow(2, Len(BlsObs) - i)),
             latest |-> IF i = 1 THEN "true" ELSE ""]
    IN
    [sid \in {"CUUR0000SA0", "CUUR0000AA0"} |->
        SelectSeq([i \in 1..Len(BlsObs) |-> BlsRow(sid, i)],
                  LAMBDA row : StrToInt(row.year) >= since)]

\* serie.get('data') of the answer to a request from the year inicio
BlsData(held, sid, inicio) ==
    SelectSeq(held[sid], LAMBDA row :
        /\ inicio <= StrToInt(row.year)
        /\ StrToInt(row.year) < inicio + inicio_step
        /\ StrToInt(row.year) <= ApiToday.y)

RECURSIVE InsertByYear(_, _)
InsertByYear(sorted, row) ==
    IF sorted = <<>> THEN <<row>>
    ELSE IF StrToInt(sorted[Len(sorted)].year) <= StrToInt(row.year)
         THEN Append(sorted, row)
    ELSE Append(InsertByYear(SubSeq(sorted, 1, Len(sorted) - 1), row),
                sorted[Len(sorted)])

RECURSIVE sort_values_year(_)
\* df.sort_values(by='year')
sort_values_year(rows) ==
    IF rows = <<>> THEN <<>>
    ELSE InsertByYear(sort_values_year(SubSeq(rows, 1, Len(rows) - 1)), rows[Len(rows)])

\* the body of the while loop after a request was answered: the rows of
\* each series appended to what was gathered; an answer without rows has no
\* 'year' column to sort by
bls_gather(b, held) ==
    LET sids == {b.ids[i] : i \in 1..Len(b.ids)}
        acc == [sid \in sids |-> b.acc[sid] \o sort_values_year(BlsData(held, sid, b.inicio))]
    IN  IF \E sid \in sids : BlsData(held, sid, b.inicio) = <<>>
        THEN [b |-> b, err |-> "KeyError"]
        ELSE [b |-> [b EXCEPT !.acc = acc], err |-> ""]

\* the table of one series: the annual averages dropped, the date the end
\* of the row's month, the value a number, sorted by date
bls_table(rows) ==
    LET kept == SelectSeq(rows, LAMBDA row : row.period # <<"M", "1", "3">>)
        dated == [i \in 1..Len(kept) |->
                    [date |-> MonthEnd0(to_datetime_iso(
                                  kept[i].year \o <<"-">>
                                  \o SelectSeq(kept[i].period, LAMBDA c : c # "M")
                                  \o <<"-", "0", "1">>)),
                     valor |-> FromInt(StrToInt(kept[i].value))]]
        rows2 == SortRows(dated)
    IN  Frame([i \in 1..Len(rows2) |-> rows2[i].date],
              <<[name |-> "CPI", v |-> [i \in 1..Len(rows2) |-> rows2[i].valor]]>>)

\* what get_cpi returns: the table of the series, or for witch 0 the
\* dictionary of the tables by series id
bls_return(b, witch) ==
    IF witch \in {1, 2} THEN bls_table(b.acc[b.ids[1]])
    ELSE [sid \in {b.ids[i] : i \in 1..Len(b.ids)} |-> bls_table(b.acc[sid])]

InitBls ==
    /\ df = NoTable /\ df0 = NoTable /\ df1 = NoTable
    /\ ret = NoFrame
    /\ err = ""
    /\ calls = <<>>
    /\ \E since \in {1913, 1985} : server = BlsHeld(since)
    /\ arguments = <<>>
    /\ pc = "cpi"
    /\ task = <<>>
    /\ completed = <<>>
    /\ bls = <<>>
    /\ pbi = <<>>
    /\ paging = <<>>

(***************************************************************************)
(* get_from_api on a series longer than one page.  The series is held as   *)
(* two runs of consecutive days, the newer first, with c observations on   *)
(* each day of a run; days are counted from the day of the call, 0, and    *)
(* the past is negative.  The rows are numbered from 1 as the API serves   *)
(* them, newest first, and a page is the interval of the numbers of its    *)
(* rows.                                                                   *)
(***************************************************************************)
\* get_from_api is called on a series, and the first request is sent
InitPaging ==
    /\ df = NoTable /\ df0 = NoTable /\ df1 = NoTable
    /\ ret = NoFrame
    /\ err = ""
    /\ calls = <<Call("get_from_api", "", FALSE)>>
    /\ server = <<>>
    /\ arguments = <<>>
    /\ pc = "idle"
    /\ task = <<>>
    /\ completed = <<>>
    /\ bls = <<>>
    /\ pbi = <<>>
    /\ \E n1 \in {0, 1, limit - 1, limit, limit + 1},
          gap \in {1, 2, DateOffsetDays, DateOffsetDays + 1},
          n2 \in {0, 1, limit + 1},
          c1 \in 1..2, c2 \in 1..2 :
        /\ n1 = 0 => gap = 1 /\ c1 = 1
        /\ n2 = 0 => gap = 1 /\ c2 = 1
        /\ paging = [held |-> <<[hi |-> 0, lo |-> 1 - n1, c |-> c1],
                                [hi |-> 1 - n1 - gap, lo |-> 2 - n1 - gap - n2, c |-> c2]>>,
                     rows |-> c1 * n1 + c2 * n2,
                     all |-> TRUE, desde |-> 0, hasta |-> 0,
                     pages |-> <<>>,
                     pc |-> "request", err |-> ""]

\* the response to the request arrives: the first page, df.index[-1], and
\* then one turn of the loop per response
PageResponse ==
    /\ paging # <<>>
    /\ paging.pc = "request"
    /\ LET held == paging.held
           \* the rows of run k dated d or later
           RunFrom(k, d) ==
               LET first == IF held[k].lo > d THEN held[k].lo ELSE d
               IN  IF first > held[k].hi THEN 0 ELSE held[k].c * (held[k].hi - first + 1)
           RowsFrom(d) == RunFrom(1, d) + RunFrom(2, d)
           \* the rows inside the window, newest first, limit of them at most
           from == IF paging.all THEN 1 ELSE RowsFrom(paging.hasta + 1) + 1
           upto == IF paging.all THEN paging.rows ELSE RowsFrom(paging.desde)
           to == IF upto > from + limit - 1 THEN from + limit - 1 ELSE upto
           \* the date of row p
           DateAt(p) ==
               LET k == IF p <= RowsFrom(held[1].lo) THEN 1 ELSE 2
               IN  held[k].hi - ((p - RowsFrom(held[k].hi + 1) - 1) \div held[k].c)
       IN  IF to < from
           THEN paging' = [paging EXCEPT !.pc = "done",
                               !.err = IF paging.all THEN "KeyError" ELSE ""]
           ELSE paging' = [paging EXCEPT !.pages = Append(@, <<from, to>>),
                               !.all = FALSE,
                               !.desde = DateAt(to) - DateOffsetDays,
                               !.hasta = DateAt(to) - 1]
    /\ UNCHANGED <<df, df0, df1, ret, err, calls, server, arguments, pc, task, completed, bls, pbi>>

ApiInit == InitSeriesApi \/ InitBls \/ InitPaging

\* get_cpi(api=True, witch=witch) is called: the match on witch, and the
\* first request sent
CpiCall ==
    /\ pc = "cpi"
    /\ \E witch \in 0..3 :
        /\ calls' = <<Call("get_cpi", "", witch)>>
        /\ IF bls_series_ids(witch) = <<>>
           THEN /\ err' = "ValueError"
                /\ pc' = "done"
                /\ UNCHANGED bls
           ELSE /\ bls' = [ids |-> bls_series_ids(witch),
                           inicio |-> inicio0,
                           acc |-> [sid \in {bls_series_ids(witch)[i] :
                                        i \in 1..Len(bls_series_ids(witch))} |-> <<>>],
                           raised |-> ""]
                /\ pc' = "cpi-fetch"
                /\ UNCHANGED err
    /\ UNCHANGED <<paging, pbi, df, df0, df1, ret, server, arguments, task, completed>>

\* the BLS answers the request: one turn of the while loop
BlsResponse ==
    LET
        \* all(latest_bool.values())
        bls_all_latest(b) ==
            \A i \in 1..Len(b.ids) :
                \E j \in 1..Len(b.acc[b.ids[i]]) : b.acc[b.ids[i]][j].latest = "true"
    IN
    /\ pc = "cpi-fetch"
    /\ LET g == bls_gather(bls, server)
       IN  IF g.err # ""
           THEN /\ err' = g.err /\ pc' = "done" /\ UNCHANGED <<bls, ret>>
           ELSE IF bls_all_latest(g.b)
           THEN /\ ret' = bls_return(g.b, calls[1].day)
                /\ bls' = g.b /\ pc' = "done" /\ UNCHANGED err
           ELSE /\ bls' = [g.b EXCEPT !.inicio = bls.inicio + inicio_step]
                /\ UNCHANGED <<pc, ret, err>>
    /\ UNCHANGED <<paging, pbi, df, df0, df1, calls, server, arguments, task, completed>>

\* the request fails: _fetch_bls_data prints the failure and returns None,
\* and data.get('Results') of get_cpi raises AttributeError
BlsFail ==
    LET
        \* the failures of a request _fetch_bls_data catches
        BlsFailures == {"ConnectionError", "HTTPError", "JSONDecodeError"}
    IN
    /\ pc = "cpi-fetch"
    /\ \E e \in BlsFailures : bls' = [bls EXCEPT !.raised = e]
    /\ err' = "AttributeError"
    /\ pc' = "done"
    /\ UNCHANGED <<paging, pbi, df, df0, df1, ret, calls, server, arguments, task, completed>>

ApiNext ==
    \/ Submit
    \/ Start
    \/ Response
    \/ NetFail
    \/ Join
    \/ Concat
    \/ CpiCall
    \/ BlsResponse
    \/ BlsFail
    \/ PageResponse

ApiSpec == ApiInit /\ [][ApiNext]_vars

(***************************************************************************)
(* The fetches: barrier, order of the results, failures, sorted index.     *)
(***************************************************************************)
\* the calls of get_from_api that have not ended: waiting or fetching
Unfinished == {k \in DOMAIN task : task[k].st \in {"queued", "running"}}

\* C16: fork-join barrier of get_series_api: once the thread has left the
\* with block, and so whenever the concatenation starts or a result table
\* exists, one call was made per pair and every one of them has ended; no
\* result is built while a fetch is running or waiting.
C16_Barrier ==
    /\ pc \in {"joined", "done"} /\ calls[1].op = "get_series_api" =>
        /\ DOMAIN task = 1..Len(arguments)
        /\ Unfinished = {}
        /\ Len(completed) = Len(arguments)
    /\ Unfinished # {} => ret = NoFrame /\ err = ""

\* C16's case: three calls on two threads, the third started after another
\* ended, all ended in an order other than that of the pairs, and the thread
\* past the barrier
C16_Witness ==
    /\ pc = "joined"
    /\ Len(arguments) = 3
    /\ completed = <<2, 3, 1>>
    /\ \A k \in DOMAIN task : task[k].st = "done"

\* no request of the call failed on the network
NoNetworkFailure == \A k \in DOMAIN task : task[k].err # "ConnectionError"

\* get_series_api returned or raised
SeriesApiDone == pc = "done" /\ calls[1].op = "get_series_api"

FirstFailure ==
    LET k == CHOOSE i \in DOMAIN task :
                /\ task[i].err # ""
                /\ \A j \in 1..(i - 1) : task[j].err = ""
    IN  task[k].err

\* C18: a network failure of any request reaches the caller as an unhandled
\* error: get_from_api raises it, get_series_api lets every other call run
\* to its end and then raises the error of a failed call, returning no
\* table; get_cpi raises the failure of the BLS request.
C18_FailurePropagates ==
    /\ \A k \in DOMAIN task :
        task[k].err = "ConnectionError" => task[k].st = "failed" /\ task[k].res = NoFrame
    /\ (SeriesApiDone /\ ~NoNetworkFailure) =>
        /\ Unfinished = {}
        /\ err = FirstFailure
        /\ ret = NoFrame
    /\ (pc = "done" /\ calls[1].op = "get_cpi" /\ bls # <<>> /\ bls.raised # "") =>
        /\ err = bls.raised
        /\ ret = NoFrame

\* C19: the table get_from_api returns has its dates in non-decreasing
\* order, whatever the order the pages and their rows came in, and holds
\* every row received, as often as it was received.
C19_SortedKeepsAll ==
    \A k \in DOMAIN task :
        task[k].st = "done" =>
            LET r == task[k].res
                f == task[k].frame
            IN  /\ Len(r.index) = Len(f)
                /\ Len(r.cols) = 1 /\ r.cols[1].name = task[k].nombre
                /\ \A i, j \in 1..Len(r.index) :
                    i <= j => Ordinal(r.index[i]) <= Ordinal(r.index[j])
                /\ \A x \in 1..Len(f) :
                    Cardinality({i \in 1..Len(r.index) :
                        /\ IsoText(r.index[i]) = f[x].fecha
                        /\ r.cols[1].v[i] = f[x].valor})
                    = Cardinality({i \in 1..Len(f) : f[i] = f[x]})

\* C19's case: rows received oldest first, yesterday's row received again on
\* the second page, and returned twice before today's
C19_Witness ==
    \E k \in DOMAIN task :
        /\ task[k].st = "done"
        /\ Len(task[k].frame) = 3
        /\ task[k].frame[1].fecha = IsoText(MinusDays(ApiToday, 1))
        /\ task[k].frame[2].fecha = IsoText(ApiToday)
        /\ task[k].res.index =
            <<MinusDays(ApiToday, 1), MinusDays(ApiToday, 1), ApiToday>>

(***************************************************************************)
(* The date code of the data-source helpers.                               *)
(***************************************************************************)
\* a data-source helper was called once, on the table its fetch returned
Sourced == Len(calls) = 1 /\ calls[1].op \in Helpers /\ calls[1].date = ""

\* C20: every data-source helper called with its date-code flag true, its
\* fetches succeeding, returns a table that has the columns Date_Cod, month,
\* year and day, computed in each row from the row's date.
C20_SourcesDateCoded ==
    Sourced =>
        /\ err = ""
        /\ {"Date_Cod", "month", "year", "day"} \subseteq DOMAIN ret
        /\ NRows(ret) = NRows(df0)
        /\ \A i \in Rows(df0) :
            LET d == df0[IndexCol].v[i]
            IN  /\ ret["Date_Cod"].v[i] = MonthYearCode(d.m, d.y)
                /\ ret["month"].v[i] = d.m
                /\ ret["year"].v[i] = d.y
                /\ ret["day"].v[i] = d.d

(***************************************************************************)
(* get_cpi(api=True): the dispatch on witch.                               *)
(***************************************************************************)
\* get_cpi(api=True) was called and has ended
CpiDone == pc = "done" /\ Len(calls) = 1 /\ calls[1].op = "get_cpi"

\* the table of a series as the BLS holds it: its monthly rows, oldest
\* first, each dated the end of its month
HeldCpi(sid) ==
    LET kept == SelectSeq(server[sid], LAMBDA row : row.period # <<"M", "1", "3">>)
        n == Len(kept)
        at(i) == kept[n + 1 - i]
    IN  Frame([i \in 1..n |->
                  MonthEnd0(MkDate(StrToInt(at(i).year),
                                   StrToInt(SubSeq(at(i).period, 2, 3)), 1))],
              <<[name |-> "CPI", v |-> [i \in 1..n |-> FromInt(StrToInt(at(i).value))]]>>)

\* C21: get_cpi(api=True) dispatches on witch: a value outside {0, 1, 2}
\* raises ValueError before any request is sent; witch 1 returns the single
\* table of series CUUR0000SA0, witch 2 that of CUUR0000AA0, and witch 0 a
\* dictionary of both tables keyed by series id.
C21_WitchDispatch ==
    /\ (Len(calls) = 1 /\ calls[1].op = "get_cpi" /\ calls[1].day \notin {0, 1, 2}) =>
            /\ pc = "done" /\ err = "ValueError" /\ bls = <<>> /\ ret = NoFrame
    /\ (CpiDone /\ calls[1].day \in {0, 1, 2}) => err # "ValueError"
    /\ (CpiDone /\ err = "" /\ calls[1].day = 1) => ret = HeldCpi("CUUR0000SA0")
    /\ (CpiDone /\ err = "" /\ calls[1].day = 2) => ret = HeldCpi("CUUR0000AA0")
    /\ (CpiDone /\ err = "" /\ calls[1].day = 0) =>
            ret = [sid \in {"CUUR0000SA0", "CUUR0000AA0"} |-> HeldCpi(sid)]

\* witch 0 answered with the dictionary of both tables, each of several rows
C21_Witness ==
    /\ CpiDone /\ err = "" /\ calls[1].day = 0
    /\ DOMAIN ret = {"CUUR0000SA0", "CUUR0000AA0"}
    /\ Len(ret["CUUR0000SA0"].index) > 2
    /\ ret["CUUR0000SA0"] # ret["CUUR0000AA0"]

(***************************************************************************)
(* get_monetary_base with only_bmt = True.                                 *)
(***************************************************************************)
\* get_monetary_base was called once with only_bmt = True
OnlyBmt ==
    /\ Len(calls) = 1 /\ calls[1].op = "get_monetary_base"
    /\ calls[1].date \in {"api,only_bmt", "api,q,only_bmt", "file,only_bmt", "file,q,only_bmt"}

\* C22: get_monetary_base called with only_bmt = True, for every combination
\* of api, q and date_cod, does not fail and returns a table whose only data
\* column is BMT, besides the date-code columns when date_cod is true.
C22_OnlyBmt ==
    OnlyBmt =>
        /\ err = ""
        /\ "BMT" \in DOMAIN ret
        /\ DOMAIN ret \ {IndexCol, "BMT"} \subseteq
                (IF calls[1].day THEN {"Date", "Date_Cod", "month", "year", "day"} ELSE {})

(***************************************************************************)
(* get_rates: the effective rates.                                         *)
(***************************************************************************)
\* get_rates was called once, in the mode named
RatesCalled(modes) == Len(calls) = 1 /\ calls[1].op = "get_rates" /\ calls[1].date \in modes

\* the rate x of the result comes from the column src of the table read:
\* 1200 per cent is the fraction 12, 1 a month and 2 ** 12 - 1 a year; a
\* missing dollar rate counts as 0
RateOf(x, src) ==
    /\ {"TNA_" \o x, "TEM_" \o x, "TEA_" \o x} \subseteq DOMAIN ret
    /\ \A i \in Rows(df0) :
        LET v == <<ret["TNA_" \o x].v[i], ret["TEM_" \o x].v[i], ret["TEA_" \o x].v[i]>>
        IN  IF IsNaN(df0[src].v[i]) THEN v = <<Zero, Zero, Zero>>
            ELSE df0[src].v[i] = FromInt(1200)
                 /\ v = <<FromInt(12), One, FromInt(4095)>>

\* the pesos rates, the dollar rates
PesosRates(api) ==
    /\ RateOf("GenP", IF api THEN "TNA_genP" ELSE "2")
    /\ RateOf("100KP", IF api THEN "TNA_100KP" ELSE "3")
    /\ RateOf("1MP", IF api THEN "TNA_1MP" ELSE "5")

DollarRates(api) ==
    /\ RateOf("GenD", IF api THEN "TNA_genD" ELSE "6")
    /\ RateOf("100KD", IF api THEN "TNA_100KD" ELSE "7")
    /\ RateOf("1MD", IF api THEN "TNA_1MD" ELSE "8")

\* C23: for type 0, 1 and 2, in API and in file mode, get_rates returns a
\* table with, for each selected rate, TNA_x as a fraction, TEM_x = TNA_x / 12
\* and TEA_x = (1 + TEM_x) ** 12 - 1, and a column Fecha; any other type
\* raises ValueError.
C23_Rates ==
    /\ RatesCalled({"api,3", "file,3"}) => err = "ValueError"
    /\ \A api \in BOOLEAN, type \in {0, 1, 2} :
        RatesCalled({IF api THEN <<"api,0", "api,1", "api,2">>[type + 1]
                     ELSE <<"file,0", "file,1", "file,2">>[type + 1]}) =>
            /\ err = ""
            /\ "Fecha" \in DOMAIN ret /\ ret["Fecha"] = df0[IndexCol]
            /\ type \in {0, 1} => PesosRates(api)
            /\ type \in {1, 2} => DollarRates(api)

(***************************************************************************)
(* get_div_ipc: the divisions of the IPC.                                  *)
(***************************************************************************)
\* C24: for tipo 1, 2 and 3, get_div_ipc completes without a missing-column
\* error and returns a table with the columns Codigo, Descripcion, Indice_IPC
\* and the date code of each national row of the selected classifier, the
\* code being that of the row's Periodo.
C24_DivIpc ==
    \A tipo \in 1..3 :
        FirstCallIs("get_div_ipc") /\ calls[1].date = <<"tipo=1", "tipo=2", "tipo=3">>[tipo] =>
            LET clasificador == <<"Nivel general y divisiones COICOP", "Categorias",
                                  "Bienes y servicios">>[tipo]
                rows == SelectSeq([i \in 1..NRows(df0) |-> i], LAMBDA i :
                            df0["Region"].v[i] = "Nacional"
                            /\ df0["Clasificador"].v[i] = clasificador)
            IN  /\ err = ""
                /\ {"Codigo", "Descripcion", "Indice_IPC", "Date_Cod"} \subseteq DOMAIN ret
                /\ NRows(ret) = Len(rows)
                /\ \A k \in 1..Len(rows) :
                    /\ ret["Codigo"].v[k] = df0["Codigo"].v[rows[k]]
                    /\ ret["Indice_IPC"].v[k] = df0["Indice_IPC"].v[rows[k]]
                    /\ ret["Date_Cod"].v[k] =
                            MonthYearCode(df0["Periodo"].v[rows[k]] % 100,
                                          df0["Periodo"].v[rows[k]] \div 100)

(***************************************************************************)
(* get_act_cap that fails.                                                 *)
(***************************************************************************)
\* C29: get_act_cap is atomic on failure: when the call raises, because a
\* required column (day, CantD) is absent or because the table has no row,
\* the caller's table is as it was before the call: the same columns with
\* the same values, the index column (IPC / CPI) among them.
C29_AtomicOnFailure ==
    /\ calls # <<>>
    /\ calls[Len(calls)].op \in {"ipc.get_act_cap", "cpi.get_act_cap"}
    /\ err # ""
    => df = (IF Len(calls) = 1 THEN df0 ELSE df1)

(***************************************************************************)
(* The pages of a long series.                                             *)
(***************************************************************************)
\* C27: pagination of get_from_api: for every finite series the API holds,
\* served newest first and 3000 rows a request at most, the paging loop
\* ends without an exception and the pages fetched hold every observation
\* exactly once: the first page starts at the newest row, each page starts
\* at the row after the last one of the page before, and the last page ends
\* at the oldest row held.
C27_PagingComplete ==
    paging # <<>> /\ paging.pc = "done" =>
        LET pages == paging.pages
        IN  /\ paging.err = ""
            /\ paging.rows > 0 =>
                /\ pages # <<>>
                /\ pages[1][1] = 1
                /\ \A k \in 1..(Len(pages) - 1) : pages[k + 1][1] = pages[k][2] + 1
                /\ pages[Len(pages)][2] = paging.rows

(***************************************************************************)
(* pbi.py: days_in_quarter, limpiar_serie_pbi and get_pbi_pcorrientes.     *)
(* One call is made; pbi holds its arguments, its position and its         *)
(* outcome.  pbi.py imports pandas, print_calendar and ipc: the name       *)
(* calendar that days_in_quarter uses is not bound in the module.          *)
(***************************************************************************)
\* days_in_quarter(date, cant_d): the quarter and its months are found, and
\* line 189 evaluates calendar.monthrange with calendar unbound; the sums
\* and the return of lines 189 to 195 are never reached
days_in_quarter(date, cant_d) ==
    LET year == date.y
        quarter == (date.m - 1) \div 3 + 1
        month == date.m
        day == date.d
        months == [k \in 1..3 |-> 3 * (quarter - 1) + k]
        start_month == 3 * (quarter - 1) + 1
    IN  [out |-> <<>>, err |-> "NameError"]

\* the positions counted from 0, the first one taken for an average
pbi_totals_from_zero(n) == {5 * j : j \in 0..n} \cap 0..(n - 1)

\* total = list(range(-1, len(df), 5))[1:], as a set: -1, 4, 9, ... below
\* len(df), without the first
pbi_totals(n) == {-1 + 5 * j : j \in 1..n} \cap 0..(n - 1)

\* limpiar_serie_pbi(df), cells the one column of df from its first row
limpiar_serie_pbi(cells) ==
    LET \* df.iloc[1:].dropna().reset_index(drop=True), and pd.to_numeric
        values == SelectSeq(SubSeq(cells, 2, Len(cells)), LAMBDA x : ~IsNaN(x))
        n == Len(values)
        total == pbi_totals(n)
        buenos == [x \in 0..(n - 1) |-> x \notin total]
        \* df.loc[buenos]
        kept == SelectSeq([x \in 1..n |-> x], LAMBDA x : buenos[x - 1])
        \* pd.date_range(start='2004-01-01', periods=df.shape[0], freq='QE')
        quarter_end(k) ==
            MkDate(2004 + (k - 1) \div 4, 3 * (((k - 1) % 4) + 1),
                   DaysInMonth(2004 + (k - 1) \div 4, 3 * (((k - 1) % 4) + 1)))
    IN  Frame([k \in 1..Len(kept) |-> quarter_end(k)],
              <<[name |-> "PBI", v |-> [k \in 1..Len(kept) |-> values[kept[k]]]]>>)

\* no function of pbi.py has been called
InitPbi ==
    /\ df = NoTable /\ df0 = NoTable /\ df1 = NoTable
    /\ ret = NoFrame
    /\ err = ""
    /\ calls = <<>>
    /\ server = <<>>
    /\ arguments = <<>>
    /\ pc = "idle"
    /\ task = <<>>
    /\ completed = <<>>
    /\ bls = <<>>
    /\ pbi = [op |-> "", pc |-> "idle"]
    /\ paging = <<>>

\* days_in_quarter is called on a day of 2023 or 2024
DaysInQuarter ==
    /\ pbi.pc = "idle"
    /\ \E y \in {2023, 2024}, m \in 1..12, cant_d \in BOOLEAN :
        \E d \in 1..DaysInMonth(y, m) :
            LET r == days_in_quarter(MkDate(y, m, d), cant_d)
            IN  pbi' = [op |-> "days_in_quarter", pc |-> "done", date |-> MkDate(y, m, d),
                        cant_d |-> cant_d, out |-> r.out, err |-> r.err]
    /\ UNCHANGED <<df, df0, df1, ret, err, calls, server, arguments, pc, task, completed, bls, paging>>

\* limpiar_serie_pbi is called on a row of the sheet: its label, then the
\* values, the i-th being i, with one blank cell among them at most
LimpiarSeriePbi ==
    /\ pbi.pc = "idle"
    /\ \E n \in 0..MaxCells :
        \E blank \in 0..n :
            LET cells == <<"Producto Interno Bruto">>
                         \o [i \in 1..n |-> IF i = blank THEN NaN ELSE FromInt(i)]
            IN  pbi' = [op |-> "limpiar_serie_pbi", pc |-> "done", cells |-> cells,
                        out |-> limpiar_serie_pbi(cells), err |-> ""]
    /\ UNCHANGED <<df, df0, df1, ret, err, calls, server, arguments, pc, task, completed, bls, paging>>

\* the months the IPC workbook holds at most, from January 2004 on
MaxMonths == 18

\* get_pbi_pcorrientes(url, file, sin_estimar) is called: row 5 of the sheet
\* holds n values, the workbook of the IPC the month ends of 2004-01 onwards
GetPbiPcorrientes ==
    /\ pbi.pc = "idle"
    /\ \E n \in {1, 2, 3, 4, 6}, months \in 1..MaxMonths, sin_estimar \in BOOLEAN :
        LET IpcValues == <<100, 105, 108, 112, 120, 125, 126, 130, 135, 140, 144, 150,
                           154, 156, 160, 162, 165, 168, 175, 176, 180, 182, 189, 192>>
            month_end(k) ==
                MkDate(2004 + (k - 1) \div 12, ((k - 1) % 12) + 1,
                       DaysInMonth(2004 + (k - 1) \div 12, ((k - 1) % 12) + 1))
            \* the call up to the loop; ipc.get_ipc(file_infla_empalmada): the workbook
            \* does not change during the call, every read of it gives the table ipc
            called(pib, file, ipc) ==
                IF sin_estimar
                THEN [op |-> "get_pbi_pcorrientes", pc |-> "done", sin_estimar |-> TRUE,
                      pib |-> pib, out |-> pib, err |-> ""]
                ELSE [op |-> "get_pbi_pcorrientes", pc |-> "loop", sin_estimar |-> FALSE,
                      pib |-> pib, file |-> file, ipc |-> ipc,
                      ultimo_pib |-> pib.cols[1].v[Len(pib.index)],
                      fecha_actual |-> pib.index[Len(pib.index)],
                      fecha_final |-> ipc["Date"].v[NRows(ipc)],
                      estimaciones |-> <<>>,
                      out |-> NoFrame, err |-> ""]
            read(file) ==
                called(limpiar_serie_pbi(<<"Producto Interno Bruto">>
                                         \o [i \in 1..n |-> FromInt(i)]),
                       file, get_ipc(file).t)
        IN  pbi' = read(FileTable("IPC", [k \in 1..months |-> month_end(k)], IpcValues))
    /\ UNCHANGED <<df, df0, df1, ret, err, calls, server, arguments, pc, task, completed, bls, paging>>

\* one turn of the loop: the next quarter end or the last date of the IPC,
\* and the estimate for it
PbiEstimate ==
    /\ pbi.pc = "loop"
    /\ Ordinal(pbi.fecha_actual) < Ordinal(pbi.fecha_final)
    /\ LET \* fecha_actual + pd.DateOffset(months=3): the day is cut to the month's length
           plus3 ==
               LET y == pbi.fecha_actual.y + (pbi.fecha_actual.m + 2) \div 12
                   m == ((pbi.fecha_actual.m + 2) % 12) + 1
               IN  MkDate(y, m, IF pbi.fecha_actual.d > DaysInMonth(y, m)
                                THEN DaysInMonth(y, m) ELSE pbi.fecha_actual.d)
           \* while not is_month_end: += pd.DateOffset()
           trimestre == MkDate(plus3.y, plus3.m, DaysInMonth(plus3.y, plus3.m))
           fecha_proximo_trimestre ==
               IF Ordinal(trimestre) >= Ordinal(pbi.fecha_final)
               THEN pbi.fecha_final ELSE trimestre
           \* ipc.get_ipc(file_infla_empalmada).loc[fecha, 'IPC']
           ipc == pbi.ipc
           at(fecha) == {k \in 1..NRows(ipc) : ipc["Date"].v[k] = fecha}
           loc(fecha) == ipc["IPC"].v[CHOOSE k \in at(fecha) : TRUE]
       IN  IF at(pbi.fecha_actual) = {} \/ at(fecha_proximo_trimestre) = {}
           THEN pbi' = [pbi EXCEPT !.pc = "done", !.err = "KeyError"]
           ELSE LET pbi_estimado ==
                        RDiv(RMul(pbi.ultimo_pib, loc(fecha_proximo_trimestre)),
                             loc(pbi.fecha_actual))
                IN  pbi' = [pbi EXCEPT
                               !.estimaciones = Append(@, [fecha |-> fecha_proximo_trimestre,
                                                           PBI |-> pbi_estimado]),
                               !.fecha_actual = fecha_proximo_trimestre,
                               !.ultimo_pib = pbi_estimado]
    /\ UNCHANGED <<df, df0, df1, ret, err, calls, server, arguments, pc, task, completed, bls, paging>>

\* the loop has ended: pd.concat(estimaciones), which raises ValueError on
\* an empty list, and the estimates after the observed rows
PbiReturn ==
    /\ pbi.pc = "loop"
    /\ ~(Ordinal(pbi.fecha_actual) < Ordinal(pbi.fecha_final))
    /\ LET e == pbi.estimaciones
       IN  IF e = <<>>
           THEN pbi' = [pbi EXCEPT !.pc = "done", !.err = "ValueError"]
           ELSE pbi' = [pbi EXCEPT !.pc = "done",
                           !.out = Frame(pbi.pib.index \o [k \in 1..Len(e) |-> e[k].fecha],
                                         <<[name |-> "PBI",
                                            v |-> pbi.pib.cols[1].v
                                                  \o [k \in 1..Len(e) |-> e[k].PBI]]>>)]
    /\ UNCHANGED <<df, df0, df1, ret, err, calls, server, arguments, pc, task, completed, bls, paging>>

PbiNext ==
    \/ DaysInQuarter
    \/ LimpiarSeriePbi
    \/ GetPbiPcorrientes
    \/ PbiEstimate
    \/ PbiReturn

PbiSpec == InitPbi /\ [][PbiNext]_vars

(***************************************************************************)
(* The days of a quarter.                                                  *)
(***************************************************************************)
\* C25: days_in_quarter(date, cant_d=True) returns the number of days of the
\* calendar quarter of the date, and with cant_d=False the number of days
\* from the first day of that quarter through the date: at least 1, at most
\* the total, and the total on the quarter's last day.
C25_DaysInQuarter ==
    pbi.op = "days_in_quarter" =>
        LET date == pbi.date
            first == 3 * ((date.m - 1) \div 3) + 1
            start == DaysFromCivil(date.y, first, 1)
            end == IF first = 10 THEN DaysFromCivil(date.y + 1, 1, 1)
                   ELSE DaysFromCivil(date.y, first + 3, 1)
            total == end - start
            elapsed == DaysFromCivil(date.y, date.m, date.d) - start + 1
        IN  /\ pbi.err = ""
            /\ pbi.out = IF pbi.cant_d THEN total ELSE elapsed
            /\ total \in (IF first = 1 THEN {90, 91} ELSE IF first = 4 THEN {91} ELSE {92})
            /\ elapsed \in 1..total

(***************************************************************************)
(* The series of the PBI without its annual averages.                      *)
(***************************************************************************)
\* the values of the row given to limpiar_serie_pbi: its cells after the
\* first that are not blank
PbiValues == SelectSeq(SubSeq(pbi.cells, 2, Len(pbi.cells)), LAMBDA x : ~IsNaN(x))

\* C26: limpiar_serie_pbi removes the annual averages and nothing else: of
\* the n values left after the first row and the blank rows are dropped, it
\* removes the rows at positions 4, 9, 14, ... (n \div 5 rows), keeps the
\* others in their order, and labels the k-th kept row with the k-th
\* quarter end counted from 2004-03-31.
C26_AveragesRemoved ==
    pbi.op = "limpiar_serie_pbi" =>
        LET n == Len(PbiValues)
            out == pbi.out
        IN  /\ pbi.err = ""
            /\ Len(out.index) = n - n \div 5
            /\ Len(out.cols) = 1 /\ out.cols[1].name = "PBI"
            /\ Len(out.cols[1].v) = Len(out.index)
            /\ \A k \in 1..Len(out.index) :
                /\ out.cols[1].v[k] = PbiValues[k + (k - 1) \div 4]
                /\ out.index[k] =
                        MinusDays(MkDate(2004 + (3 * k) \div 12, ((3 * k) % 12) + 1, 1), 1)

\* ten values and a blank cell: two averages removed, eight quarters kept
C26_Witness ==
    /\ pbi.op = "limpiar_serie_pbi"
    /\ Len(pbi.cells) = 12 /\ Len(PbiValues) = 10
    /\ Len(pbi.out.index) = 8
    /\ pbi.out.index[8] = MkDate(2005, 12, 31)

\* C28: get_pbi_pcorrientes with sin_estimar=False, for every last observed
\* quarter and last date of the IPC: the call returns without an exception
\* the observed rows followed by zero or more estimated rows; the dates of
\* the estimated rows rise strictly, each at most one quarter after the row
\* before it, the last one is the last date of the IPC when that date is
\* after the last observed quarter, and each estimated PBI is the last
\* observed PBI times IPC(its date) / IPC(last observed quarter).  While the
\* loop runs the date reached never passes the last date of the IPC.
C28_Estimates ==
    pbi.op = "get_pbi_pcorrientes" /\ ~pbi.sin_estimar =>
        LET pib == pbi.pib
            n == Len(pib.index)
            IPC(fecha) ==
                pbi.file["IPC"].v[CHOOSE k \in 1..NRows(pbi.file) :
                                      pbi.file["Date"].v[k] = fecha]
        IN  /\ pbi.pc = "loop" /\ pbi.estimaciones # <<>> =>
                Ordinal(pbi.fecha_actual) <= Ordinal(pbi.fecha_final)
            /\ pbi.pc = "done" =>
                LET out == pbi.out
                    m == Len(out.index)
                IN  /\ pbi.err = ""
                    /\ m >= n
                    /\ SubSeq(out.index, 1, n) = pib.index
                    /\ SubSeq(out.cols[1].v, 1, n) = pib.cols[1].v
                    /\ \A k \in (n + 1)..m :
                        /\ Ordinal(out.index[k - 1]) < Ordinal(out.index[k])
                        /\ Ordinal(out.index[k]) - Ordinal(out.index[k - 1]) <= 92
                        /\ out.cols[1].v[k] =
                            RDiv(RMul(pib.cols[1].v[n], IPC(out.index[k])), IPC(pib.index[n]))
                    /\ Ordinal(pbi.fecha_final) > Ordinal(pib.index[n]) =>
                        m > n /\ out.index[m] = pbi.fecha_final


====
